---- MODULE Spec2Model ----
(***************************************************************************)
(* Verification model of KarpelesLab/dns: the dnsmsg wire codec (Parse,    *)
(* MarshalBinary, name compression) and the dnssec signer / verifier.      *)
(*                                                                         *)
(* Octets are integers 0..255, a []byte or a Go string is a sequence of    *)
(* octets.  Go offsets are 0-based: rawMsg[i] is raw[i + 1] here.          *)
(* A call that does not return normally has one of two outcomes in the     *)
(* err field: "panic" (a Go runtime panic: index out of range, nil         *)
(* dereference) and "NoReturn" (the call loops forever or exhausts         *)
(* memory).                                                                *)
(***************************************************************************)
EXTENDS Integers, Sequences, FiniteSets, TLC

VARIABLES
    pc,      \* position of the driver of the current specification
    buf,     \* the input buffer handed to Parse
    msg,     \* the Message under work (parsed, or built programmatically)
    err,     \* error of Parse(buf)
    out,     \* buffer returned by msg.MarshalBinary()
    err2,    \* error of msg.MarshalBinary()
    msg2,    \* Message returned by Parse(out)
    err3,    \* error of Parse(out)
    signer,  \* the Signer: DNSKEY and private key
    rrset,   \* the RRset handed to SignRRset
    rrsig,   \* RRSIG returned by SignRRset
    serr,    \* error of NewSigner or SignRRset
    vsig,    \* RRSIG handed to VerifyRRSIGAt
    vkey,    \* DNSKEY handed to VerifyRRSIGAt
    vset,    \* RRset handed to VerifyRRSIGAt, or to the second BuildSignedData
    now,     \* time handed to VerifyRRSIGAt
    verr,    \* error of VerifyRRSIGAt
    blobA,   \* result of the first BuildSignedData call
    blobB,   \* result of the second BuildSignedData call
    dsOwner, \* owner name handed to ComputeDS
    dsKey,   \* DNSKEY handed to ComputeDS and to KeyTag
    dsType,  \* digest type handed to ComputeDS
    dsRec,   \* DS returned by ComputeDS
    dsErr,   \* error of ComputeDS
    vds,     \* DS handed to VerifyDS
    vdsOwner, \* owner name handed to VerifyDS
    vdsKey,  \* DNSKEY handed to VerifyDS
    dsOk,    \* result of VerifyDS
    tag,     \* result of KeyTag
    nsKey,   \* DNSKEY handed to NewSigner
    nsPriv,  \* private key handed to NewSigner
    nsSigner, \* Signer returned by NewSigner
    nsErr,   \* error of NewSigner
    bmTypes, \* type list handed to EncodeTypeBitmap
    bmData,  \* octets returned by EncodeTypeBitmap
    bmBack,  \* type list returned by decodeTypeBitmap(bmData)
    cnName,  \* name handed to CanonicalName
    cnOut,   \* octets returned by CanonicalName
    hBits,   \* HeaderBits value before a mutator
    hOp,     \* the mutator called
    hArg,    \* argument of the mutator
    hOut     \* HeaderBits value after the mutator

codecVars == <<buf, msg, err, out, err2, msg2, err3>>

signVars == <<signer, rrset, rrsig, serr, vsig, vkey, vset, now, verr, blobA, blobB>>

dsVars == <<dsOwner, dsKey, dsType, dsRec, dsErr, vds, vdsOwner, vdsKey, dsOk, tag>>

auxVars ==
    <<nsKey, nsPriv, nsSigner, nsErr, bmTypes, bmData, bmBack, cnName, cnOut, hBits, hOp, hArg,
      hOut>>

vars == <<pc, codecVars, signVars, dsVars, auxVars>>

----------------------------------------------------------------------------
(* Bounds of the model *)

\* longest question name, in wire octets, drawn for Parse
MaxNameBytes == 3

----------------------------------------------------------------------------
(* Octet helpers: encoding/binary big endian *)

U16(v) == <<(v \div 256) % 256, v % 256>>

U32(v) == <<(v \div 16777216) % 256, (v \div 65536) % 256, (v \div 256) % 256, v % 256>>

\* rawMsg[lo:hi] with 0-based lo, hi
Slice(s, lo, hi) == SubSeq(s, lo + 1, hi)

GetU16(s, off) == s[off + 1] * 256 + s[off + 2]

GetU32(s, off) == ((s[off + 1] * 256 + s[off + 2]) * 256 + s[off + 3]) * 256 + s[off + 4]

RECURSIVE SeqSum(_)
SeqSum(s) == IF s = <<>> THEN 0 ELSE Head(s) + SeqSum(Tail(s))

\* strings.ToLower on an ASCII string
LowerByte(b) == IF b >= 65 /\ b <= 90 THEN b + 32 ELSE b

ToLower(s) == [i \in 1..Len(s) |-> LowerByte(s[i])]

Dot == 46

\* strings.HasSuffix(s, ".")
HasDotSuffix(s) == Len(s) > 0 /\ s[Len(s)] = Dot

\* strings.IndexByte(s, '.'), 0-based, -1 when absent
IndexDot(s) ==
    IF \E i \in 1..Len(s) : s[i] = Dot
    THEN (CHOOSE i \in 1..Len(s) : s[i] = Dot /\ \A j \in 1..(i - 1) : s[j] # Dot) - 1
    ELSE -1

----------------------------------------------------------------------------
(* Record types and error values *)

TypeA == 1
TypeNS == 2
TypeCNAME == 5
TypeSOA == 6
TypeNULL == 10
TypePTR == 12
TypeMX == 15
TypeTXT == 16
TypeAAAA == 28
TypeOPT == 41
TypeRRSIG == 46
ClassIN == 1

\* the single-name types of parseRData that call readLabel on the RDATA
LabelTypes == {2, 3, 4, 5, 7, 8, 9, 12, 39}

Nil == "nil"
ErrInvalidLen == "ErrInvalidLen"
ErrNotSupport == "ErrNotSupport"
ErrNameTooLong == "ErrNameTooLong"
ErrLabelTooLong == "ErrLabelTooLong"
ErrInvalidLabel == "ErrInvalidLabel"
EOF == "EOF"
ErrUnexpectedEOF == "ErrUnexpectedEOF"
Panic == "panic"
NoReturn == "NoReturn"

----------------------------------------------------------------------------
(* context.readLabel, decode side (c.marshal is false in Parse)            *)
(*                                                                         *)
(* buf is rawMsg[off:end].  The loop state that decides control flow is    *)
(* (off, end); after a pointer it is (pos, len(rawMsg)).  The code keeps   *)
(* no record of the offsets it jumped to, so when a pointer leads to a     *)
(* position it already jumped to, the same iterations repeat for ever:     *)
(* seen carries the jump targets only to report that outcome as NoReturn.  *)

\* the pointer branch: the target and whether it is followed
ReadLabelPointer(raw, off, seen) ==
    LET pos == GetU16(raw, off) % 16384
    IN  IF pos >= Len(raw) THEN [e |-> ErrInvalidLabel, pos |-> pos]
        ELSE IF pos \in seen THEN [e |-> NoReturn, pos |-> pos]
        ELSE [e |-> Nil, pos |-> pos]

RECURSIVE ReadLabelLoop(_, _, _, _, _, _, _)
ReadLabelLoop(raw, off, end, res, read, readMode, seen) ==
    IF off >= end THEN [name |-> res, n |-> read, err |-> Panic]
    ELSE
    LET v == raw[off + 1]
        read1 == IF readMode THEN read + 1 ELSE read
    IN  IF v = 0 THEN [name |-> res, n |-> read1, err |-> Nil]
        ELSE IF v >= 192
        THEN IF end - off < 2 THEN [name |-> res, n |-> read1, err |-> ErrInvalidLabel]
             ELSE LET read2 == IF readMode THEN read1 + 1 ELSE read1
                      p == ReadLabelPointer(raw, off, seen)
                  IN  IF p.e # Nil THEN [name |-> res, n |-> read2, err |-> p.e]
                      ELSE ReadLabelLoop(raw, p.pos, Len(raw), res, read2, FALSE,
                                         seen \cup {p.pos})
        ELSE IF v > 63 THEN [name |-> res, n |-> read1, err |-> ErrInvalidLabel]
        ELSE IF v >= end - (off + 1) THEN [name |-> res, n |-> read1, err |-> ErrInvalidLabel]
        ELSE ReadLabelLoop(raw, off + 1 + v, end,
                           res \o Slice(raw, off + 1, off + 1 + v) \o <<Dot>>,
                           IF readMode THEN read1 + v ELSE read1, readMode, seen)

readLabel(raw, off, end) == ReadLabelLoop(raw, off, end, <<>>, 0, TRUE, {})

\* context.parseLabel: the name at the read position
parseLabel(raw, rpos) ==
    IF rpos >= Len(raw) THEN [name |-> <<>>, n |-> 0, err |-> EOF]
    ELSE readLabel(raw, rpos, Len(raw))

----------------------------------------------------------------------------
(* Record data decoders *)

\* error of a run of binary.Read calls of the given sizes with rem octets left
RECURSIVE ReadFieldsErr(_, _)
ReadFieldsErr(rem, sizes) ==
    IF sizes = <<>> THEN Nil
    ELSE IF rem <= 0 THEN EOF
    ELSE IF rem < Head(sizes) THEN ErrUnexpectedEOF
    ELSE ReadFieldsErr(rem - Head(sizes), Tail(sizes))

\* parseTXT: the character-strings of d, concatenated
RECURSIVE parseTXTLoop(_, _, _)
parseTXTLoop(d, pos, result) ==
    IF pos >= Len(d) THEN [data |-> [k |-> "TXT", Txt |-> result], err |-> Nil]
    ELSE LET strLen == d[pos + 1]
         IN  IF pos + 1 + strLen > Len(d) THEN [data |-> <<>>, err |-> ErrInvalidLen]
             ELSE parseTXTLoop(d, pos + 1 + strLen, result \o Slice(d, pos + 1, pos + 1 + strLen))

parseTXT(d) == parseTXTLoop(d, 0, <<>>)

\* RDataOPT.decode: (code, length, data) triples read through a bytes.Reader
RECURSIVE OPTdecodeLoop(_, _, _)
OPTdecodeLoop(d, pos, opts) ==
    IF pos >= Len(d) THEN [data |-> [k |-> "OPT", Opts |-> opts], err |-> Nil]
    ELSE LET e == ReadFieldsErr(Len(d) - pos, <<2, 2>>)
         IN  IF e # Nil THEN [data |-> <<>>, err |-> e]
             ELSE LET code == GetU16(d, pos)
                      l == GetU16(d, pos + 2)
                      rem == Len(d) - (pos + 4)
                  IN  IF l > 0 /\ rem = 0 THEN [data |-> <<>>, err |-> EOF]
                      ELSE IF l > rem THEN [data |-> <<>>, err |-> ErrUnexpectedEOF]
                      ELSE OPTdecodeLoop(d, pos + 4 + l,
                               Append(opts, [Code |-> code, Data |-> Slice(d, pos + 4, pos + 4 + l)]))

OPTdecode(d) == OPTdecodeLoop(d, 0, <<>>)

\* RDataSOA.decode on d = raw[ds:de]
SOAdecode(raw, ds, de) ==
    LET m == readLabel(raw, ds, de)
    IN  IF m.err # Nil THEN [data |-> <<>>, err |-> m.err]
        ELSE LET r == readLabel(raw, ds + m.n, de)
             IN  IF r.err # Nil THEN [data |-> <<>>, err |-> r.err]
                 ELSE LET o == ds + m.n + r.n
                      IN  IF de - o < 20 THEN [data |-> <<>>, err |-> ErrInvalidLen]
                          ELSE [data |-> [k |-> "SOA", MName |-> m.name, RName |-> r.name,
                                          Serial |-> GetU32(raw, o), Refresh |-> GetU32(raw, o + 4),
                                          Retry |-> GetU32(raw, o + 8), Expire |-> GetU32(raw, o + 12),
                                          Minimum |-> GetU32(raw, o + 16)],
                                err |-> Nil]

\* RDataRRSIG.decode on d = raw[ds:de]
RRSIGdecode(raw, ds, de) ==
    IF de - ds < 18 THEN [data |-> <<>>, err |-> ErrInvalidLen]
    ELSE LET s == readLabel(raw, ds + 18, de)
         IN  IF s.err # Nil THEN [data |-> <<>>, err |-> s.err]
             ELSE [data |-> [k |-> "RRSIG", TypeCovered |-> GetU16(raw, ds),
                             Algorithm |-> raw[ds + 3], Labels |-> raw[ds + 4],
                             OrigTTL |-> GetU32(raw, ds + 4), Expiration |-> GetU32(raw, ds + 8),
                             Inception |-> GetU32(raw, ds + 12), KeyTag |-> GetU16(raw, ds + 16),
                             SignerName |-> s.name,
                             Signature |-> Slice(raw, ds + 18 + s.n, de)],
                   err |-> Nil]

\* context.parseRData on d = raw[ds:de], for the record types A, NS, MD,
\* MF, CNAME, SOA, MB, MG, MR, NULL, PTR, MX, TXT, AAAA, OPT, RRSIG, DNAME;
\* every other type this model is given has no case in parseRData
parseRData(raw, t, ds, de) ==
    LET d == Slice(raw, ds, de)
    IN  IF t = TypeA \/ t = TypeAAAA
        THEN IF Len(d) # (IF t = TypeA THEN 4 ELSE 16) THEN [data |-> <<>>, err |-> ErrInvalidLen]
             ELSE [data |-> [k |-> "IP", IP |-> d, Type |-> t], err |-> Nil]
        ELSE IF t \in LabelTypes
        THEN LET l == readLabel(raw, ds, de)
             IN  IF l.err # Nil THEN [data |-> <<>>, err |-> l.err]
                 ELSE [data |-> [k |-> "Label", Label |-> l.name, Type |-> t], err |-> Nil]
        ELSE IF t = TypeSOA THEN SOAdecode(raw, ds, de)
        ELSE IF t = TypeNULL THEN [data |-> [k |-> "Raw", Data |-> d, Type |-> t], err |-> Nil]
        ELSE IF t = TypeMX
        THEN IF Len(d) < 3 THEN [data |-> <<>>, err |-> ErrInvalidLen]
             ELSE LET l == readLabel(raw, ds + 2, de)
                  IN  IF l.err # Nil THEN [data |-> <<>>, err |-> l.err]
                      ELSE [data |-> [k |-> "MX", Pref |-> GetU16(raw, ds), Server |-> l.name],
                            err |-> Nil]
        ELSE IF t = TypeTXT THEN parseTXT(d)
        ELSE IF t = TypeOPT THEN OPTdecode(d)
        ELSE IF t = TypeRRSIG THEN RRSIGdecode(raw, ds, de)
        ELSE [data |-> <<>>, err |-> ErrNotSupport]

----------------------------------------------------------------------------
(* Questions, resources, and Parse *)

\* context.parseQuestion at rpos
parseQuestion(raw, rpos) ==
    LET l == parseLabel(raw, rpos)
    IN  IF l.err # Nil THEN [q |-> <<>>, rpos |-> rpos, err |-> l.err]
        ELSE LET p == rpos + l.n
                 e == ReadFieldsErr(Len(raw) - p, <<2, 2>>)
             IN  IF e # Nil THEN [q |-> <<>>, rpos |-> p, err |-> e]
                 ELSE [q |-> [Name |-> l.name, Type |-> GetU16(raw, p), Class |-> GetU16(raw, p + 2)],
                       rpos |-> p + 4, err |-> Nil]

\* context.readLen: the end of the l octets at rpos
readLen(raw, rpos, l) ==
    IF l = 0 THEN [ds |-> rpos, de |-> rpos, rpos |-> rpos, err |-> Nil]
    ELSE IF rpos + l > Len(raw) THEN [ds |-> rpos, de |-> rpos, rpos |-> rpos, err |-> EOF]
    ELSE [ds |-> rpos, de |-> rpos + l, rpos |-> rpos + l, err |-> Nil]

\* context.parseResource at rpos
parseResource(raw, rpos) ==
    LET l == parseLabel(raw, rpos)
    IN  IF l.err # Nil THEN [r |-> <<>>, rpos |-> rpos, err |-> l.err]
        ELSE LET p == rpos + l.n
                 e == ReadFieldsErr(Len(raw) - p, <<2, 2, 4, 2>>)
             IN  IF e # Nil THEN [r |-> <<>>, rpos |-> p, err |-> e]
                 ELSE LET t == GetU16(raw, p)
                          rd == readLen(raw, p + 10, GetU16(raw, p + 8))
                      IN  IF rd.err # Nil THEN [r |-> <<>>, rpos |-> p, err |-> rd.err]
                          ELSE LET x == parseRData(raw, t, rd.ds, rd.de)
                               IN  IF x.err # Nil THEN [r |-> <<>>, rpos |-> rd.rpos, err |-> x.err]
                                   ELSE [r |-> [Name |-> l.name, Type |-> t,
                                                Class |-> GetU16(raw, p + 2),
                                                TTL |-> GetU32(raw, p + 4), Data |-> x.data],
                                         rpos |-> rd.rpos, err |-> Nil]

\* the loop "for i := 0; i < int(QD); i++" of UnmarshalBinary
RECURSIVE parseQuestions(_, _, _, _)
parseQuestionsNext(raw, rpos, n, acc, q) ==
    IF q.err # Nil THEN [list |-> acc, rpos |-> rpos, err |-> q.err]
    ELSE parseQuestions(raw, q.rpos, n - 1, Append(acc, q.q))

parseQuestions(raw, rpos, n, acc) ==
    IF n = 0 THEN [list |-> acc, rpos |-> rpos, err |-> Nil]
    ELSE parseQuestionsNext(raw, rpos, n, acc, parseQuestion(raw, rpos))

\* the loops over AN, NS and AR of UnmarshalBinary
RECURSIVE parseResources(_, _, _, _)
parseResourcesNext(raw, rpos, n, acc, r) ==
    IF r.err # Nil THEN [list |-> acc, rpos |-> rpos, err |-> r.err]
    ELSE parseResources(raw, r.rpos, n - 1, Append(acc, r.r))

parseResources(raw, rpos, n, acc) ==
    IF n = 0 THEN [list |-> acc, rpos |-> rpos, err |-> Nil]
    ELSE parseResourcesNext(raw, rpos, n, acc, parseResource(raw, rpos))

EmptyMessage ==
    [ID |-> 0, Bits |-> 0, Question |-> <<>>, Answer |-> <<>>, Authority |-> <<>>,
     Additional |-> <<>>, HasEDNS |-> FALSE, Opts |-> <<>>, ReqUDPSize |-> 0, OptRCode |-> 0,
     Base |-> <<>>]

\* the additional section with the OPT record re-homed and also kept
RECURSIVE RehomeOPTKept(_, _)
RehomeOPTKept(m, list) ==
    IF list = <<>> THEN m
    ELSE LET r == Head(list)
         IN  IF r.Type = TypeOPT
             THEN RehomeOPTKept([m EXCEPT !.HasEDNS = TRUE, !.Opts = r.Data.Opts,
                                      !.ReqUDPSize = r.Class, !.OptRCode = r.TTL,
                                          !.Additional = Append(@, r)], Tail(list))
             ELSE RehomeOPTKept([m EXCEPT !.Additional = Append(@, r)], Tail(list))

\* the re-homing of OPT records of the additional section
RECURSIVE RehomeOPT(_, _)
RehomeOPT(m, list) ==
    IF list = <<>> THEN m
    ELSE LET r == Head(list)
         IN  IF r.Type = TypeOPT
             THEN RehomeOPT([m EXCEPT !.HasEDNS = TRUE, !.Opts = r.Data.Opts,
                                      !.ReqUDPSize = r.Class, !.OptRCode = r.TTL], Tail(list))
             ELSE RehomeOPT([m EXCEPT !.Additional = Append(@, r)], Tail(list))

\* Parse / Message.UnmarshalBinary
ParseAR(m, ar) ==
    IF ar.err # Nil THEN [msg |-> EmptyMessage, err |-> ar.err]
    ELSE [msg |-> RehomeOPT(m, ar.list), err |-> Nil]

ParseNS(raw, m, ns) ==
    IF ns.err # Nil THEN [msg |-> EmptyMessage, err |-> ns.err]
    ELSE ParseAR([m EXCEPT !.Authority = ns.list],
                 parseResources(raw, ns.rpos, GetU16(raw, 10), <<>>))

ParseAN(raw, m, an) ==
    IF an.err # Nil THEN [msg |-> EmptyMessage, err |-> an.err]
    ELSE ParseNS(raw, [m EXCEPT !.Answer = an.list],
                 parseResources(raw, an.rpos, GetU16(raw, 8), <<>>))

ParseQD(raw, m, qd) ==
    IF qd.err # Nil THEN [msg |-> EmptyMessage, err |-> qd.err]
    ELSE ParseAN(raw, [m EXCEPT !.Question = qd.list],
                 parseResources(raw, qd.rpos, GetU16(raw, 6), <<>>))

Parse(raw) ==
    IF ReadFieldsErr(Len(raw), <<2, 2, 2, 2, 2, 2>>) # Nil
    THEN [msg |-> EmptyMessage, err |-> ReadFieldsErr(Len(raw), <<2, 2, 2, 2, 2, 2>>)]
    ELSE ParseQD(raw, [EmptyMessage EXCEPT !.ID = GetU16(raw, 0), !.Bits = GetU16(raw, 2)],
                 parseQuestions(raw, 12, GetU16(raw, 4), <<>>))

----------------------------------------------------------------------------
(* Encoding: the context is [raw, map, name]; map is the labelMap, from    *)
(* lowercased suffix to pointer value, name is the default suffix (Base).  *)

NewContext(base) == [raw |-> <<>>, map |-> <<>>, name |-> base]

\* context.Write
Write(c, p) == [c EXCEPT !.raw = @ \o p]

\* the label loop of context.appendLabel
RECURSIVE appendLabelLoop(_, _)
appendLabelLoop(c, lbl) ==
    LET key == ToLower(lbl)
    IN  IF key \in DOMAIN c.map THEN [c |-> Write(c, U16(c.map[key])), err |-> Nil]
        ELSE
        LET cachePos == Len(c.raw)
            c1 == IF cachePos < 16383
                  THEN [c EXCEPT !.map = [x \in (DOMAIN c.map) \cup {key} |->
                                             IF x = key THEN cachePos + 49152 ELSE c.map[x]]]
                  ELSE c
            pos == IndexDot(lbl)
        IN  IF pos = 0 THEN [c |-> c1, err |-> ErrInvalidLabel]
            ELSE IF pos = -1
            THEN IF Len(lbl) = 0 THEN [c |-> c1, err |-> ErrInvalidLabel]
                 ELSE IF Len(lbl) > 63 THEN [c |-> c1, err |-> ErrLabelTooLong]
                 ELSE [c |-> Write(c1, <<Len(lbl)>> \o lbl \o <<0>>), err |-> Nil]
            ELSE IF pos > 63 THEN [c |-> c1, err |-> ErrLabelTooLong]
            ELSE appendLabelLoop(Write(c1, <<pos>> \o Slice(lbl, 0, pos)),
                                 Slice(lbl, pos + 1, Len(lbl)))

\* context.appendLabel (c.marshal is false in MarshalBinary)
appendLabel(c, lbl) ==
    IF Len(lbl) > 255 THEN [c |-> c, err |-> ErrNameTooLong]
    ELSE IF ~HasDotSuffix(lbl)
    THEN IF c.name = <<>> THEN [c |-> c, err |-> ErrInvalidLabel]
         ELSE LET full == IF lbl = <<>> \/ lbl = <<64>> THEN c.name
                          ELSE lbl \o <<Dot>> \o c.name
              IN  IF Len(full) > 255 THEN [c |-> c, err |-> ErrNameTooLong]
                  ELSE appendLabelLoop(c, full)
    ELSE appendLabelLoop(c, Slice(lbl, 0, Len(lbl) - 1))

\* net.IP.To4: <<>> stands for nil
V4InV6Prefix == <<0, 0, 0, 0, 0, 0, 0, 0, 0, 0, 255, 255>>

To4(ip) ==
    IF Len(ip) = 4 THEN ip
    ELSE IF Len(ip) = 16 /\ Slice(ip, 0, 12) = V4InV6Prefix THEN Slice(ip, 12, 16)
    ELSE <<>>

\* net.IP.To16
To16(ip) ==
    IF Len(ip) = 4 THEN V4InV6Prefix \o ip
    ELSE IF Len(ip) = 16 THEN ip
    ELSE <<>>

\* RDataTXT.encode writing one character-string, whatever the length
TXTencodeOneString(c, data) ==
    IF Len(data) = 0 THEN [c |-> c, err |-> Nil]
    ELSE [c |-> Write(c, <<Len(data) % 256>> \o data), err |-> Nil]

\* RDataTXT.encode: character-strings of at most 255 octets
RECURSIVE TXTencode(_, _)
TXTencode(c, data) ==
    IF Len(data) = 0 THEN [c |-> c, err |-> Nil]
    ELSE LET chunkLen == IF Len(data) > 255 THEN 255 ELSE Len(data)
         IN  TXTencode(Write(c, <<chunkLen>> \o Slice(data, 0, chunkLen)),
                       Slice(data, chunkLen, Len(data)))

\* RDataOPT.encode
RECURSIVE OPTencode(_, _)
OPTencode(c, opts) ==
    IF opts = <<>> THEN [c |-> c, err |-> Nil]
    ELSE LET o == Head(opts)
         IN  IF Len(o.Data) > 65535 THEN [c |-> c, err |-> ErrInvalidLen]
             ELSE OPTencode(Write(c, U16(o.Code) \o U16(Len(o.Data)) \o o.Data), Tail(opts))

\* RDataSOA.encode
SOAencode(c, soa) ==
    LET a == appendLabel(c, soa.MName)
    IN  IF a.err # Nil THEN a
        ELSE LET b == appendLabel(a.c, soa.RName)
             IN  IF b.err # Nil THEN b
                 ELSE [c |-> Write(b.c, U32(soa.Serial) \o U32(soa.Refresh) \o U32(soa.Retry)
                                        \o U32(soa.Expire) \o U32(soa.Minimum)),
                       err |-> Nil]

\* RDataRRSIG.encode
RRSIGencode(c, r) ==
    LET c1 == Write(c, U16(r.TypeCovered) \o <<r.Algorithm, r.Labels>> \o U32(r.OrigTTL)
                       \o U32(r.Expiration) \o U32(r.Inception) \o U16(r.KeyTag))
        a == appendLabel(c1, r.SignerName)
    IN  IF a.err # Nil THEN a ELSE [c |-> Write(a.c, r.Signature), err |-> Nil]

\* RData.encode, by variant; a nil Data is <<>>
DataEncode(c, data) ==
    IF data = <<>> THEN [c |-> c, err |-> Panic]
    ELSE IF data.k = "IP"
    THEN LET i == IF data.Type = TypeA THEN To4(data.IP)
                  ELSE IF data.Type = TypeAAAA THEN To16(data.IP) ELSE <<>>
         IN  IF i = <<>> THEN [c |-> c, err |-> "errors.New"]
             ELSE [c |-> Write(c, i), err |-> Nil]
    ELSE IF data.k = "Label" THEN appendLabel(c, data.Label)
    ELSE IF data.k = "MX" THEN appendLabel(Write(c, U16(data.Pref)), data.Server)
    ELSE IF data.k = "SOA" THEN SOAencode(c, data)
    ELSE IF data.k = "TXT" THEN TXTencode(c, data.Txt)
    ELSE IF data.k = "Raw" THEN [c |-> Write(c, data.Data), err |-> Nil]
    ELSE IF data.k = "OPT" THEN OPTencode(c, data.Opts)
    ELSE RRSIGencode(c, data)

\* context.putUint16
putUint16(c, pos, v) ==
    [c EXCEPT !.raw = [i \in 1..Len(@) |->
                          IF i = pos + 1 THEN U16(v)[1] ELSE IF i = pos + 2 THEN U16(v)[2] ELSE @[i]]]

\* Question.encode
QuestionEncode(c, q) ==
    LET a == appendLabel(c, q.Name)
    IN  IF a.err # Nil THEN a
        ELSE [c |-> Write(a.c, U16(q.Type) \o U16(q.Class)), err |-> Nil]

\* 0xffff, the largest RDLENGTH
MaxRDLen == 65535

\* Resource.encode after r.Data.encode, measuring from the RDLENGTH field
\* and not from the start of the RDATA
ResourcePatchLenFromPos(c2, pos, d) ==
    IF d.err = Panic THEN [c |-> c2, err |-> Panic]
    ELSE IF Len(d.c.raw) - pos > MaxRDLen THEN [c |-> d.c, err |-> ErrInvalidLen]
    ELSE [c |-> putUint16(d.c, pos, Len(d.c.raw) - pos), err |-> Nil]

\* Resource.encode after r.Data.encode: the error of r.Data.encode is
\* overwritten by the RDLENGTH check, not returned
ResourcePatchLen(c2, pos, d) ==
    IF d.err = Panic THEN [c |-> c2, err |-> Panic]
    ELSE IF Len(d.c.raw) - Len(c2.raw) > MaxRDLen THEN [c |-> d.c, err |-> ErrInvalidLen]
    ELSE [c |-> putUint16(d.c, pos, Len(d.c.raw) - Len(c2.raw)), err |-> Nil]

\* Resource.encode after the owner name: fixed fields, RDLENGTH placeholder, RDATA
ResourceEncodeFields(a, r) ==
    IF a.err # Nil THEN a
    ELSE ResourcePatchLen(Write(a.c, U16(r.Type) \o U16(r.Class) \o U32(r.TTL) \o <<0, 0>>),
                          Len(a.c.raw) + 8,
                          DataEncode(Write(a.c, U16(r.Type) \o U16(r.Class) \o U32(r.TTL) \o <<0, 0>>),
                                     r.Data))

\* Resource.encode
ResourceEncode(c, r) == ResourceEncodeFields(appendLabel(c, r.Name), r)

\* the loop over m.Question of MarshalBinary
RECURSIVE EncodeQuestions(_, _)
EncodeQuestionsNext(a, list) ==
    IF a.err # Nil THEN a ELSE EncodeQuestions(a.c, Tail(list))

EncodeQuestions(c, list) ==
    IF list = <<>> THEN [c |-> c, err |-> Nil]
    ELSE EncodeQuestionsNext(QuestionEncode(c, Head(list)), list)

\* the loops over m.Answer, m.Authority and m.Additional of MarshalBinary
RECURSIVE EncodeResources(_, _)
EncodeResourcesNext(a, list) ==
    IF a.err # Nil THEN a ELSE EncodeResources(a.c, Tail(list))

EncodeResources(c, list) ==
    IF list = <<>> THEN [c |-> c, err |-> Nil]
    ELSE EncodeResourcesNext(ResourceEncode(c, Head(list)), list)

\* MarshalBinary after the additional section: return c.rawMsg
MarshalAR(ar) ==
    IF ar.err # Nil THEN [out |-> <<>>, err |-> ar.err] ELSE [out |-> ar.c.raw, err |-> Nil]

MarshalNS(m, ns) ==
    IF ns.err # Nil THEN [out |-> <<>>, err |-> ns.err]
    ELSE MarshalAR(EncodeResources(ns.c, m.Additional))

MarshalAN(m, an) ==
    IF an.err # Nil THEN [out |-> <<>>, err |-> an.err]
    ELSE MarshalNS(m, EncodeResources(an.c, m.Authority))

MarshalQD(m, q) ==
    IF q.err # Nil THEN [out |-> <<>>, err |-> q.err]
    ELSE MarshalAN(m, EncodeResources(q.c, m.Answer))

\* Message.MarshalBinary: HasEDNS, Opts, ReqUDPSize and OptRCode are not read
MarshalBinary(m) ==
    MarshalQD(m, EncodeQuestions(
        Write(NewContext(m.Base),
              U16(m.ID) \o U16(m.Bits) \o U16(Len(m.Question)) \o U16(Len(m.Answer))
              \o U16(Len(m.Authority)) \o U16(Len(m.Additional))),
        m.Question))

----------------------------------------------------------------------------
(* Inputs of Parse *)

\* all octet sequences over alphabet of length 1..n
RECURSIVE SeqsUpTo(_, _)
SeqsUpTo(alphabet, n) ==
    IF n = 0 THEN {}
    ELSE LET shorter == SeqsUpTo(alphabet, n - 1)
         IN  {<<b>> : b \in alphabet} \cup shorter \cup {Append(x, b) : x \in shorter, b \in alphabet}

\* octets of question names: end of name, a one-octet label "a" or "A",
\* a pointer mark, and pointer targets 12 (the name itself), 14, 18
NameOctets == {0, 1, 65, 97, 192, 12, 14, 18}

WireNames == SeqsUpTo(NameOctets, MaxNameBytes)

Header(id, bits, qd, an, ns, ar) ==
    U16(id) \o U16(bits) \o U16(qd) \o U16(an) \o U16(ns) \o U16(ar)

\* one question; the name is any octet sequence, QTYPE is A or the octets
\* C0 0C, and a label "a" may trail the question (at offset 18 for a
\* two-octet name)
QuestionInputs ==
    {Header(4660, 256, 1, 0, 0, 0) \o name \o qtype \o <<0, 1>> \o trailer :
        name \in WireNames, qtype \in {<<0, 1>>, <<192, 12>>},
        trailer \in {<<>>, <<1, 97, 0>>}}

Zeros(n) == [i \in 1..n |-> 0]

\* the fixed part of an RRSIG RDATA: A, algorithm 13, labels 1, TTL 300,
\* expiration 2, inception 1, key tag 7
RRSIGFixed == U16(1) \o <<13, 1>> \o U32(300) \o U32(2) \o U32(1) \o U16(7)

\* (type, class, RDATA) of the records drawn; the question name "a." is at
\* offset 12, so C0 0C inside a record is a backward pointer to it
RDataInputs ==
    {<<TypeA, 1, <<192, 0, 2, 1>>>>, <<TypeA, 1, <<192, 0, 2>>>>,
     <<TypeAAAA, 1, Zeros(15) \o <<1>>>>,
     <<TypeNS, 1, <<>>>>, <<TypeNS, 1, <<192, 12>>>>, <<TypeNS, 1, <<1, 98, 192, 12>>>>,
     <<TypeNS, 1, <<0>>>>, <<TypeNS, 1, <<1, 66, 0>>>>, <<TypeNS, 1, <<1, 98>>>>,
     <<TypeCNAME, 1, <<>>>>, <<TypeCNAME, 1, <<192, 12>>>>,
     <<TypePTR, 1, <<>>>>, <<TypePTR, 1, <<1, 98, 0>>>>,
     <<TypeMX, 1, <<0, 5, 192, 12>>>>, <<TypeMX, 1, <<0, 5>>>>, <<TypeMX, 1, <<0, 5, 1, 98, 0>>>>,
     <<TypeSOA, 1, <<192, 12>>>>, <<TypeSOA, 1, <<1, 98, 0>>>>,
     <<TypeSOA, 1, <<192, 12, 192, 12>>>>,
     <<TypeSOA, 1, <<192, 12, 1, 98, 192, 12>> \o U32(1) \o U32(2) \o U32(3) \o U32(4) \o U32(5)>>,
     <<TypeTXT, 1, <<>>>>, <<TypeTXT, 1, <<1, 97>>>>, <<TypeTXT, 1, <<2, 97>>>>,
     <<TypeTXT, 1, <<1, 97, 1, 98>>>>,
     <<TypeNULL, 1, <<>>>>, <<TypeNULL, 1, <<7, 8>>>>,
     <<TypeOPT, 4096, <<>>>>, <<TypeOPT, 512, <<0, 10, 0, 1, 7>>>>,
     <<TypeOPT, 512, <<0, 10, 0, 2, 7>>>>, <<TypeOPT, 512, <<0, 10, 0>>>>,
     <<TypeOPT, 1232, <<0, 10, 0, 1, 7, 0, 3, 0, 0>>>>,
     <<TypeRRSIG, 1, RRSIGFixed>>, <<TypeRRSIG, 1, RRSIGFixed \o <<192, 12, 9, 9>>>>,
     <<TypeRRSIG, 1, RRSIGFixed \o <<0>>>>, <<TypeRRSIG, 1, SubSeq(RRSIGFixed, 1, 17)>>,
     <<99, 1, <<1, 2>>>>}

\* owner names of the records drawn: pointer to the question name, the
\* root, the label "A"
OwnerInputs == {<<192, 12>>, <<0>>, <<1, 65, 0>>}

\* the question "a. IN A" followed by one record in the answer, authority
\* or additional section; RDLENGTH is the length of the RDATA plus extra
RecordPacket(cnt, owner, rd, extra) ==
    Header(9071, 33152, 1, cnt[1], cnt[2], cnt[3]) \o <<1, 97, 0, 0, 1, 0, 1>>
        \o owner \o U16(rd[1]) \o U16(rd[2]) \o U32(205) \o U16(Len(rd[3]) + extra) \o rd[3]

\* RDLENGTH is the length of the RDATA, or one more
RecordInputs ==
    {RecordPacket(cnt, owner, rd, extra) :
        cnt \in {<<1, 0, 0>>, <<0, 1, 0>>, <<0, 0, 1>>},
        owner \in OwnerInputs, rd \in RDataInputs, extra \in {0, 1}}

\* every prefix of a well-formed response
FullResponse ==
    Header(9071, 33152, 1, 1, 0, 0) \o <<1, 97, 0, 0, 1, 0, 1>>
    \o <<192, 12>> \o U16(TypeA) \o U16(1) \o U32(205) \o U16(4) \o <<192, 0, 2, 1>>

TruncatedInputs == {SubSeq(FullResponse, 1, n) : n \in 0..Len(FullResponse)}

\* the query "a. IN A" with RD and the three reserved Z bits set (0x0170)
ZBitsQuery == Header(4660, 368, 1, 0, 0, 0) \o <<1, 97, 0, 0, 1, 0, 1>>

ParseInputs == QuestionInputs \cup RecordInputs \cup TruncatedInputs \cup {ZBitsQuery}

----------------------------------------------------------------------------
(* Spec: a buffer is parsed, the message is encoded again, and the output  *)
(* is parsed a second time                                                 *)

\* the variables of NewSigner, the type bitmap, CanonicalName and
\* HeaderBits, at rest
AuxIdle ==
    /\ nsKey = <<>> /\ nsPriv = <<>> /\ nsSigner = <<>> /\ nsErr = Nil
    /\ bmTypes = <<>> /\ bmData = <<>> /\ bmBack = <<>>
    /\ cnName = <<>> /\ cnOut = <<>>
    /\ hBits = 0 /\ hOp = "" /\ hArg = 0 /\ hOut = 0

\* the signer / verifier variables, at rest
SignIdle ==
    /\ signer = <<>> /\ rrset = <<>> /\ rrsig = <<>> /\ serr = Nil
    /\ vsig = <<>> /\ vkey = <<>> /\ vset = <<>> /\ now = 0 /\ verr = Nil
    /\ blobA = <<>> /\ blobB = <<>>

\* the DS variables, at rest
DsIdle ==
    /\ dsOwner = <<>> /\ dsKey = <<>> /\ dsType = 0 /\ dsRec = <<>> /\ dsErr = Nil
    /\ vds = <<>> /\ vdsOwner = <<>> /\ vdsKey = <<>> /\ dsOk = FALSE /\ tag = 0

\* the codec variables, at rest
CodecIdle ==
    /\ buf = <<>> /\ msg = EmptyMessage /\ err = Nil /\ out = <<>> /\ err2 = Nil
    /\ msg2 = EmptyMessage /\ err3 = Nil

Init ==
    /\ pc = "start"
    /\ buf \in ParseInputs
    /\ msg = EmptyMessage
    /\ err = Nil
    /\ out = <<>>
    /\ err2 = Nil
    /\ msg2 = EmptyMessage
    /\ err3 = Nil
    /\ SignIdle
    /\ DsIdle
    /\ AuxIdle

\* msg, err := Parse(buf)
DoParse ==
    /\ pc = "start"
    /\ msg' = Parse(buf).msg
    /\ err' = Parse(buf).err
    /\ pc' = "parsed"
    /\ UNCHANGED auxVars
    /\ UNCHANGED <<buf, out, err2, msg2, err3, signVars, dsVars>>

\* out, err2 := msg.MarshalBinary()
DoMarshal ==
    /\ pc = "parsed"
    /\ err = Nil
    /\ out' = MarshalBinary(msg).out
    /\ err2' = MarshalBinary(msg).err
    /\ pc' = "marshaled"
    /\ UNCHANGED auxVars
    /\ UNCHANGED <<buf, msg, err, msg2, err3, signVars, dsVars>>

\* msg2, err3 := Parse(out)
DoReparse ==
    /\ pc = "marshaled"
    /\ err2 = Nil
    /\ msg2' = Parse(out).msg
    /\ err3' = Parse(out).err
    /\ pc' = "reparsed"
    /\ UNCHANGED auxVars
    /\ UNCHANGED <<buf, msg, err, out, err2, signVars, dsVars>>

Next == DoParse \/ DoMarshal \/ DoReparse

Spec == Init /\ [][Next]_vars

----------------------------------------------------------------------------
(* SpecRoundTrip: a message built programmatically is encoded, and the     *)
(* output is parsed                                                        *)

\* fully-qualified names: ".", "a.", "A.", "b.a."
RootName == <<Dot>>

BuiltNames == {RootName, <<97, Dot>>, <<65, Dot>>, <<98, Dot, 97, Dot>>}

\* record data of supported types, as a program builds them
BuiltData ==
    {[k |-> "IP", IP |-> <<192, 0, 2, 1>>, Type |-> TypeA]}
    \cup {[k |-> "Label", Label |-> n, Type |-> TypeNS] : n \in BuiltNames}
    \cup {[k |-> "MX", Pref |-> 5, Server |-> <<65, Dot>>]}
    \cup {[k |-> "TXT", Txt |-> <<97, 98>>]}

TypeOfData(d) ==
    IF d.k = "MX" THEN TypeMX ELSE IF d.k = "TXT" THEN TypeTXT ELSE d.Type

BuiltResources ==
    {[Name |-> n, Type |-> TypeOfData(d), Class |-> ClassIN, TTL |-> 300, Data |-> d] :
        n \in BuiltNames, d \in BuiltData}

\* a query or a response with one question and at most one answer, and a
\* query with EDNS set
BuiltMessages ==
    {[EmptyMessage EXCEPT !.ID = 4660, !.Bits = 256,
                          !.Question = <<[Name |-> q, Type |-> TypeA, Class |-> ClassIN]>>,
                          !.Answer = an] :
        q \in BuiltNames, an \in {<<>>} \cup {<<r>> : r \in BuiltResources}}
    \cup
    {[EmptyMessage EXCEPT !.ID = 4660, !.Bits = 256,
                          !.Question = <<[Name |-> q, Type |-> TypeA, Class |-> ClassIN]>>,
                          !.HasEDNS = TRUE, !.ReqUDPSize = 1232, !.Opts = opts] :
        q \in BuiltNames, opts \in {<<>>, <<[Code |-> 10, Data |-> <<7>>]>>}}

InitRoundTrip ==
    /\ pc = "built"
    /\ msg \in BuiltMessages
    /\ buf = <<>>
    /\ err = Nil
    /\ out = <<>>
    /\ err2 = Nil
    /\ msg2 = EmptyMessage
    /\ err3 = Nil
    /\ SignIdle
    /\ DsIdle
    /\ AuxIdle

\* out, err2 := msg.MarshalBinary()
RtMarshal ==
    /\ pc = "built"
    /\ out' = MarshalBinary(msg).out
    /\ err2' = MarshalBinary(msg).err
    /\ pc' = "encoded"
    /\ UNCHANGED auxVars
    /\ UNCHANGED <<buf, msg, err, msg2, err3, signVars, dsVars>>

\* msg2, err3 := Parse(out)
RtParse ==
    /\ pc = "encoded"
    /\ err2 = Nil
    /\ msg2' = Parse(out).msg
    /\ err3' = Parse(out).err
    /\ pc' = "decoded"
    /\ UNCHANGED auxVars
    /\ UNCHANGED <<buf, msg, err, out, err2, signVars, dsVars>>

NextRoundTrip == RtMarshal \/ RtParse

SpecRoundTrip == InitRoundTrip /\ [][NextRoundTrip]_vars

----------------------------------------------------------------------------
(* SpecLongName: a query for a name of several long labels is encoded and  *)
(* the output is parsed                                                    *)

\* most labels in a name
MaxLabels == 4

\* lengths of the labels
LabelLens == {61, 62, 63}

\* the name of the labels "aaa..a" of the lengths lens, with trailing dot
RECURSIVE LongName(_)
LongName(lens) ==
    IF lens = <<>> THEN <<>>
    ELSE [i \in 1..Head(lens) |-> 97] \o <<Dot>> \o LongName(Tail(lens))

LongNames == {LongName(lens) : lens \in UNION {[1..n -> LabelLens] : n \in 1..MaxLabels}}

LongNameMessages ==
    {[EmptyMessage EXCEPT !.ID = 4660, !.Bits = 256,
                          !.Question = <<[Name |-> q, Type |-> TypeA, Class |-> ClassIN]>>] :
        q \in LongNames}

InitLongName ==
    /\ pc = "built"
    /\ msg \in LongNameMessages
    /\ buf = <<>>
    /\ err = Nil
    /\ out = <<>>
    /\ err2 = Nil
    /\ msg2 = EmptyMessage
    /\ err3 = Nil
    /\ SignIdle
    /\ DsIdle
    /\ AuxIdle

SpecLongName == InitLongName /\ [][NextRoundTrip]_vars

----------------------------------------------------------------------------
(* SpecLongRecord: the messages of SpecRoundTrip, and responses whose      *)
(* answer is a NULL record of MaxRDLen octets or one more, are encoded and *)
(* the output is parsed                                                    *)

LongRecordMessages ==
    {[EmptyMessage EXCEPT !.ID = 4660, !.Bits = 256,
                          !.Question = <<[Name |-> <<97, Dot>>, Type |-> TypeNULL,
                                          Class |-> ClassIN]>>,
                          !.Answer = <<[Name |-> <<97, Dot>>, Type |-> TypeNULL,
                                        Class |-> ClassIN, TTL |-> 300,
                                        Data |-> [k |-> "Raw", Data |-> [i \in 1..n |-> 7],
                                                  Type |-> TypeNULL]]>>] :
        n \in {MaxRDLen, MaxRDLen + 1}}

InitLongRecord ==
    /\ pc = "built"
    /\ msg \in BuiltMessages \cup LongRecordMessages
    /\ buf = <<>>
    /\ err = Nil
    /\ out = <<>>
    /\ err2 = Nil
    /\ msg2 = EmptyMessage
    /\ err3 = Nil
    /\ SignIdle
    /\ DsIdle
    /\ AuxIdle

SpecLongRecord == InitLongRecord /\ [][NextRoundTrip]_vars

----------------------------------------------------------------------------
(* SpecTXT: a response with one TXT record is encoded and the output is    *)
(* parsed                                                                  *)

\* most octets in a TXT value: two full character-strings and one octet
MaxTxtLen == 511

\* the TXT value of n octets 97, 98, ...
TxtOfLen(n) == [i \in 1..n |-> 97 + (i % 26)]

TXTMessages ==
    {[EmptyMessage EXCEPT !.ID = 4660, !.Bits = 256,
                          !.Question = <<[Name |-> <<97, Dot>>, Type |-> TypeTXT,
                                          Class |-> ClassIN]>>,
                          !.Answer = <<[Name |-> <<97, Dot>>, Type |-> TypeTXT,
                                        Class |-> ClassIN, TTL |-> 300,
                                        Data |-> [k |-> "TXT", Txt |-> TxtOfLen(n)]]>>] :
        n \in 0..MaxTxtLen}

InitTXT ==
    /\ pc = "built"
    /\ msg \in TXTMessages
    /\ buf = <<>>
    /\ err = Nil
    /\ out = <<>>
    /\ err2 = Nil
    /\ msg2 = EmptyMessage
    /\ err3 = Nil
    /\ SignIdle
    /\ DsIdle
    /\ AuxIdle

SpecTXT == InitTXT /\ [][NextRoundTrip]_vars

----------------------------------------------------------------------------
(* dnssec: algorithms and error values *)

AlgorithmRSAMD5 == 1
AlgorithmRSASHA1 == 5
AlgorithmRSASHA256 == 8
AlgorithmRSASHA512 == 10
AlgorithmECDSAP256 == 13
AlgorithmECDSAP384 == 14
AlgorithmED25519 == 15

ErrSignatureExpired == "ErrSignatureExpired"
ErrSignatureNotYetValid == "ErrSignatureNotYetValid"
ErrNoMatchingKey == "ErrNoMatchingKey"
ErrInvalidSignature == "ErrInvalidSignature"
ErrUnsupportedAlgorithm == "ErrUnsupportedAlgorithm"
ErrInvalidKey == "ErrInvalidKey"
ErrTypeMismatch == "ErrTypeMismatch"
ErrKeyMismatch == "ErrKeyMismatch"
\* an error made in place by errors.New
ErrorsNew == "errors.New"

----------------------------------------------------------------------------
(* dnssec: canonical form and the signed data *)

\* strings.Split(s, "."): one element more than there are dots
RECURSIVE SplitDots(_)
SplitDots(s) ==
    IF IndexDot(s) = -1 THEN <<s>>
    ELSE <<Slice(s, 0, IndexDot(s))>> \o SplitDots(Slice(s, IndexDot(s) + 1, Len(s)))

\* strings.TrimSuffix(s, ".")
TrimDot(s) == IF HasDotSuffix(s) THEN Slice(s, 0, Len(s) - 1) ELSE s

\* the loop of CanonicalName: byte(len(label)), then the label
RECURSIVE WriteLabels(_)
WriteLabels(labels) ==
    IF labels = <<>> THEN <<>>
    ELSE <<Len(Head(labels)) % 256>> \o Head(labels) \o WriteLabels(Tail(labels))

\* CanonicalName: appending a missing "." and trimming it again is TrimDot
CanonicalName(name) == WriteLabels(SplitDots(TrimDot(ToLower(name)))) \o <<0>>

\* CountLabels
CountLabels(name) ==
    IF TrimDot(name) = <<>> THEN 0
    ELSE (Cardinality({i \in 1..Len(TrimDot(name)) : TrimDot(name)[i] = Dot}) + 1) % 256

\* the result of MarshalBinary as encodeRData returns it: nil on error
MarshalledOrNil(r) == IF r.err # Nil THEN <<>> ELSE r.out

\* encodeRData: the whole message dnsmsg.New() makes around rr, header
\* included; id is the ID that New drew from math/rand
encodeRData(rr, id) ==
    IF rr.Data = <<>> THEN <<>>
    ELSE MarshalledOrNil(MarshalBinary([EmptyMessage EXCEPT !.ID = id, !.Answer = <<rr>>]))

\* bytes.Compare(a, b) < 0
RECURSIVE BytesLess(_, _)
BytesLess(a, b) ==
    IF b = <<>> THEN FALSE
    ELSE IF a = <<>> THEN TRUE
    ELSE IF Head(a) # Head(b) THEN Head(a) < Head(b)
    ELSE BytesLess(Tail(a), Tail(b))

\* the less function CanonicalRRset hands to sort.Slice; ids is the pair
\* of message IDs drawn by the two encodeRData calls
SortLess(a, b, ids) == BytesLess(encodeRData(a, ids[1]), encodeRData(b, ids[2]))

\* s with the elements at (1-based) i and j exchanged
Swap(s, i, j) ==
    [x \in 1..Len(s) |-> IF x = i THEN s[j] ELSE IF x = j THEN s[i] ELSE s[x]]

\* sort.Slice on a short slice is an insertion sort:
\*   for i := 1; i < n; i++ { for j := i; j > 0 && less(j, j-1); j-- { swap(j, j-1) } }
\* draws holds the ID pairs of the successive calls of less
RECURSIVE insertionSort(_, _, _, _)
insertionSort(s, i, j, draws) ==
    IF i >= Len(s) THEN s
    ELSE IF j > 0 /\ SortLess(s[j + 1], s[j], Head(draws))
    THEN insertionSort(Swap(s, j + 1, j), i, j - 1, Tail(draws))
    ELSE insertionSort(s, i + 1, i + 1, IF j > 0 THEN Tail(draws) ELSE draws)

\* CanonicalRRset
CanonicalRRset(set, draws) ==
    IF Len(set) <= 1 THEN set ELSE insertionSort(set, 1, 1, draws)

\* the RDataTXT case of encodeRDataDirect: chunks of at most 255 octets
RECURSIVE TXTChunks(_)
TXTChunks(txt) ==
    IF txt = <<>> THEN <<>>
    ELSE IF Len(txt) > 255
    THEN <<255>> \o SubSeq(txt, 1, 255) \o TXTChunks(SubSeq(txt, 256, Len(txt)))
    ELSE <<Len(txt)>> \o txt

\* the default case of encodeRDataDirect: the marshalled message without
\* its 12 header octets, nil when MarshalBinary fails
MarshalledTail(r) ==
    IF r.err = Nil /\ Len(r.out) > 12 THEN Slice(r.out, 12, Len(r.out)) ELSE <<>>

\* encodeRDataDirect, for the data variants of this model; the message ID
\* of the default case is cut off with the header
encodeRDataDirect(rr) ==
    IF rr.Data = <<>> THEN <<>>
    ELSE IF rr.Data.k = "IP" THEN rr.Data.IP
    ELSE IF rr.Data.k = "TXT" THEN TXTChunks(rr.Data.Txt)
    ELSE IF rr.Data.k = "MX" THEN U16(rr.Data.Pref) \o CanonicalName(rr.Data.Server)
    ELSE IF rr.Data.k = "SOA"
    THEN CanonicalName(rr.Data.MName) \o CanonicalName(rr.Data.RName)
         \o U32(rr.Data.Serial) \o U32(rr.Data.Refresh) \o U32(rr.Data.Retry)
         \o U32(rr.Data.Expire) \o U32(rr.Data.Minimum)
    ELSE IF rr.Data.k = "Label" THEN CanonicalName(rr.Data.Label)
    ELSE MarshalledTail(MarshalBinary([EmptyMessage EXCEPT !.ID = 1, !.Answer = <<rr>>]))

\* uint16(len(rdata)), then rdata
WithLength(rdata) == U16(Len(rdata) % 65536) \o rdata

\* the loop of BuildSignedData over the sorted RRset
RECURSIVE SignedRecords(_, _)
SignedRecords(sig, sorted) ==
    IF sorted = <<>> THEN <<>>
    ELSE CanonicalName(Head(sorted).Name) \o U16(Head(sorted).Type) \o U16(Head(sorted).Class)
         \o U32(sig.OrigTTL) \o WithLength(encodeRDataDirect(Head(sorted)))
         \o SignedRecords(sig, Tail(sorted))

\* the head of BuildSignedData: the RRSIG RDATA without the signature
SignedHeader(sig) ==
    U16(sig.TypeCovered) \o <<sig.Algorithm % 256, sig.Labels>> \o U32(sig.OrigTTL)
    \o U32(sig.Expiration) \o U32(sig.Inception) \o U16(sig.KeyTag)
    \o CanonicalName(sig.SignerName)

\* BuildSignedData; its error is always nil
BuildSignedData(sig, set, draws) ==
    SignedHeader(sig) \o SignedRecords(sig, CanonicalRRset(set, draws))

----------------------------------------------------------------------------
(* dnssec: key tag, keys and signatures.                                   *)
(* Cryptography is ideal: a private key is known by its public material,   *)
(* a signature records the scheme, the key, the hash and the signed        *)
(* octets, and verifies exactly against those; hashes do not collide.      *)

\* keyTagAlg1
keyTagAlg1(key) ==
    IF Len(key.PublicKey) < 2 THEN 0
    ELSE GetU16(key.PublicKey, Len(key.PublicKey) - 2)

\* the loop of KeyTag over the DNSKEY wire octets
RECURSIVE KeyTagSum(_, _)
KeyTagSum(wire, i) ==
    IF i >= Len(wire) THEN 0
    ELSE (IF i % 2 = 0 THEN wire[i + 1] * 256 ELSE wire[i + 1]) + KeyTagSum(wire, i + 1)

\* ac += ac >> 16; return uint16(ac & 0xFFFF); the uint32 ac does not
\* overflow on keys shorter than 65536 octets
KeyTagNoFold(ac) == ac % 65536

KeyTagFold(ac) == (ac + (ac \div 65536)) % 65536

\* KeyTag
KeyTag(key) ==
    IF key.Algorithm = AlgorithmRSAMD5 THEN keyTagAlg1(key)
    ELSE KeyTagFold(KeyTagSum(U16(key.Flags) \o <<key.Protocol, key.Algorithm % 256>>
                              \o key.PublicKey, 0))

\* big.Int.SetBytes
RECURSIVE BigInt(_)
BigInt(bytes) ==
    IF bytes = <<>> THEN 0 ELSE BigInt(SubSeq(bytes, 1, Len(bytes) - 1)) * 256 + bytes[Len(bytes)]

\* parseRSAPublicKey once the exponent length and its offset are read
RSAKeyAt(data, offset, expLen) ==
    IF Len(data) < offset + expLen THEN [key |-> <<>>, err |-> ErrInvalidKey]
    ELSE IF Len(data) = offset + expLen THEN [key |-> <<>>, err |-> ErrInvalidKey]
    ELSE IF BigInt(Slice(data, offset, offset + expLen)) > 2147483647
    THEN [key |-> <<>>, err |-> ErrInvalidKey]
    ELSE [key |-> [N |-> BigInt(Slice(data, offset + expLen, Len(data))),
                   E |-> BigInt(Slice(data, offset, offset + expLen))],
          err |-> Nil]

\* parseRSAPublicKey
parseRSAPublicKey(data) ==
    IF Len(data) < 3 THEN [key |-> <<>>, err |-> ErrInvalidKey]
    ELSE IF data[1] = 0
    THEN IF Len(data) < 4 THEN [key |-> <<>>, err |-> ErrInvalidKey]
         ELSE RSAKeyAt(data, 3, data[2] * 256 + data[3])
    ELSE RSAKeyAt(data, 1, data[1])

\* n octets i, i + 1, ... (mod 256): the coordinates and keys of the model
Octets(n, i) == [x \in 1..n |-> (i + x) % 256]

\* the points curve.IsOnCurve accepts: the public points of the model's
\* ECDSA keys, as <<coordLen, X, Y>>
CurvePoints ==
    {<<32, Octets(32, 10), Octets(32, 50)>>, <<32, Octets(32, 20), Octets(32, 60)>>,
     <<48, Octets(48, 30), Octets(48, 70)>>, <<48, Octets(48, 40), Octets(48, 80)>>}

\* parseECDSAPublicKey
parseECDSAPublicKey(data, coordLen) ==
    IF Len(data) # coordLen * 2 THEN [key |-> <<>>, err |-> ErrInvalidKey]
    ELSE IF coordLen # 32 /\ coordLen # 48 THEN [key |-> <<>>, err |-> ErrInvalidKey]
    ELSE IF <<coordLen, Slice(data, 0, coordLen), Slice(data, coordLen, Len(data))>> \notin CurvePoints
    THEN [key |-> <<>>, err |-> ErrInvalidKey]
    ELSE [key |-> [Curve |-> coordLen, X |-> Slice(data, 0, coordLen),
                   Y |-> Slice(data, coordLen, Len(data))],
          err |-> Nil]

Ed25519PublicKeySize == 32

Ed25519SignatureSize == 64

\* the RSA case of verifyKeyPair, after parseRSAPublicKey
RSAPairError(priv, parsed) ==
    IF parsed.err # Nil THEN parsed.err
    ELSE IF priv.N # parsed.key.N \/ priv.E # parsed.key.E THEN ErrKeyMismatch
    ELSE Nil

\* the ECDSA case of verifyKeyPair, after parseECDSAPublicKey
ECDSAPairError(priv, parsed) ==
    IF parsed.err # Nil THEN parsed.err
    ELSE IF priv.X # parsed.key.X \/ priv.Y # parsed.key.Y THEN ErrKeyMismatch
    ELSE Nil

\* verifyKeyPair
verifyKeyPair(key, priv) ==
    IF priv.kind = "rsa" THEN RSAPairError(priv, parseRSAPublicKey(key.PublicKey))
    ELSE IF priv.kind = "ecdsa"
    THEN IF key.Algorithm = AlgorithmECDSAP256
         THEN ECDSAPairError(priv, parseECDSAPublicKey(key.PublicKey, 32))
         ELSE IF key.Algorithm = AlgorithmECDSAP384
         THEN ECDSAPairError(priv, parseECDSAPublicKey(key.PublicKey, 48))
         ELSE ErrKeyMismatch
    ELSE IF priv.kind = "ed25519"
    THEN IF Len(key.PublicKey) # Ed25519PublicKeySize THEN ErrKeyMismatch
         ELSE IF key.PublicKey # priv.Pub THEN ErrKeyMismatch
         ELSE Nil
    ELSE ErrorsNew

\* NewSigner
NewSigner(key, priv) ==
    IF verifyKeyPair(key, priv) # Nil THEN [signer |-> <<>>, err |-> verifyKeyPair(key, priv)]
    ELSE [signer |-> [Key |-> key, Private |-> priv, keyTag |-> KeyTag(key)], err |-> Nil]

\* crypto.Signer.Sign of an RSA key (PKCS #1 v1.5 over the hash) and of an
\* Ed25519 key (over the message, no hash); an Ed25519 key refuses a hash
PrivateSign(priv, hash, data) ==
    IF priv.kind = "rsa"
    THEN [sig |-> [kind |-> "rsa", key |-> [N |-> priv.N, E |-> priv.E], hash |-> hash,
                   data |-> data, len |-> priv.Size],
          err |-> Nil]
    ELSE IF priv.kind = "ed25519" /\ hash = "none"
    THEN [sig |-> [kind |-> "ed25519", key |-> priv.Pub, hash |-> hash, data |-> data,
                   len |-> Ed25519SignatureSize],
          err |-> Nil]
    ELSE [sig |-> <<>>, err |-> ErrorsNew]

\* Signer.signECDSA: r || s, each padded to coordLen
signECDSA(s, data, hash, coordLen) ==
    IF s.Private.kind # "ecdsa" THEN [sig |-> <<>>, err |-> ErrKeyMismatch]
    ELSE [sig |-> [kind |-> "ecdsa",
                   key |-> [Curve |-> s.Private.Curve, X |-> s.Private.X, Y |-> s.Private.Y],
                   hash |-> hash, data |-> data, len |-> coordLen * 2],
          err |-> Nil]

\* Signer.sign
sign(s, data) ==
    IF s.Key.Algorithm = AlgorithmRSASHA256 THEN PrivateSign(s.Private, "SHA256", data)
    ELSE IF s.Key.Algorithm = AlgorithmRSASHA512 THEN PrivateSign(s.Private, "SHA512", data)
    ELSE IF s.Key.Algorithm = AlgorithmECDSAP256 THEN signECDSA(s, data, "SHA256", 32)
    ELSE IF s.Key.Algorithm = AlgorithmECDSAP384 THEN signECDSA(s, data, "SHA384", 48)
    ELSE IF s.Key.Algorithm = AlgorithmED25519 THEN PrivateSign(s.Private, "none", data)
    ELSE [sig |-> <<>>, err |-> ErrUnsupportedAlgorithm]

\* SignRRset after sign: the signature is stored in the RRSIG
SignedRRSIG(sig, r) ==
    IF r.err # Nil THEN [rrsig |-> <<>>, err |-> r.err]
    ELSE [rrsig |-> [sig EXCEPT !.Signature = r.sig], err |-> Nil]

\* SignRRset after the RRSIG is filled in: build the data, sign
SignData(s, sig, set, draws) == SignedRRSIG(sig, sign(s, BuildSignedData(sig, set, draws)))

\* Signer.SignRRset
SignRRset(s, set, signerName, ttl, inception, expiration, draws) ==
    IF Len(set) = 0 THEN [rrsig |-> <<>>, err |-> ErrorsNew]
    ELSE SignData(s,
                  [TypeCovered |-> set[1].Type, Algorithm |-> s.Key.Algorithm,
                   Labels |-> CountLabels(set[1].Name), OrigTTL |-> ttl,
                   Expiration |-> expiration, Inception |-> inception,
                   KeyTag |-> s.keyTag, SignerName |-> signerName, Signature |-> <<>>],
                  set, draws)

\* verifyRSA after parseRSAPublicKey: rsa.VerifyPKCS1v15
RSAVerified(parsed, data, sig, hashFunc) ==
    IF parsed.err # Nil THEN parsed.err
    ELSE IF sig.kind = "rsa" /\ sig.key = parsed.key /\ sig.hash = hashFunc /\ sig.data = data
    THEN Nil
    ELSE ErrInvalidSignature

\* verifyRSA
verifyRSA(pubKeyData, data, sig, hashFunc) ==
    RSAVerified(parseRSAPublicKey(pubKeyData), data, sig, hashFunc)

\* verifyECDSA after parseECDSAPublicKey: ecdsa.Verify
ECDSAVerified(parsed, data, sig, hashFunc, coordLen) ==
    IF parsed.err # Nil THEN parsed.err
    ELSE IF sig.len # coordLen * 2 THEN ErrInvalidSignature
    ELSE IF sig.kind = "ecdsa" /\ sig.key = parsed.key /\ sig.hash = hashFunc /\ sig.data = data
    THEN Nil
    ELSE ErrInvalidSignature

\* verifyECDSA
verifyECDSA(pubKeyData, data, sig, hashFunc, coordLen) ==
    ECDSAVerified(parseECDSAPublicKey(pubKeyData, coordLen), data, sig, hashFunc, coordLen)

\* verifyEd25519
verifyEd25519(pubKeyData, data, sig) ==
    IF Len(pubKeyData) # Ed25519PublicKeySize THEN ErrInvalidKey
    ELSE IF sig.len # Ed25519SignatureSize THEN ErrInvalidSignature
    ELSE IF sig.kind = "ed25519" /\ sig.key = pubKeyData /\ sig.data = data THEN Nil
    ELSE ErrInvalidSignature

\* the switch on rrsig.Algorithm of VerifyRRSIGAt
VerifySignature(sig, key, signedData) ==
    IF sig.Algorithm = AlgorithmRSASHA256
    THEN verifyRSA(key.PublicKey, signedData, sig.Signature, "SHA256")
    ELSE IF sig.Algorithm = AlgorithmRSASHA512
    THEN verifyRSA(key.PublicKey, signedData, sig.Signature, "SHA512")
    ELSE IF sig.Algorithm = AlgorithmECDSAP256
    THEN verifyECDSA(key.PublicKey, signedData, sig.Signature, "SHA256", 32)
    ELSE IF sig.Algorithm = AlgorithmECDSAP384
    THEN verifyECDSA(key.PublicKey, signedData, sig.Signature, "SHA384", 48)
    ELSE IF sig.Algorithm = AlgorithmED25519
    THEN verifyEd25519(key.PublicKey, signedData, sig.Signature)
    ELSE ErrUnsupportedAlgorithm

\* VerifyRRSIGAt with the type check moved before the key checks
VerifyRRSIGAtTypeFirst(sig, key, set, at, draws) ==
    IF at > sig.Expiration THEN ErrSignatureExpired
    ELSE IF at < sig.Inception THEN ErrSignatureNotYetValid
    ELSE IF Len(set) > 0 /\ set[1].Type # sig.TypeCovered THEN ErrTypeMismatch
    ELSE IF KeyTag(key) # sig.KeyTag THEN ErrNoMatchingKey
    ELSE IF key.Algorithm # sig.Algorithm THEN ErrNoMatchingKey
    ELSE VerifySignature(sig, key, BuildSignedData(sig, set, draws))

\* VerifyRRSIGAt; at is uint32(at.Unix())
VerifyRRSIGAt(sig, key, set, at, draws) ==
    IF at > sig.Expiration THEN ErrSignatureExpired
    ELSE IF at < sig.Inception THEN ErrSignatureNotYetValid
    ELSE IF KeyTag(key) # sig.KeyTag THEN ErrNoMatchingKey
    ELSE IF key.Algorithm # sig.Algorithm THEN ErrNoMatchingKey
    ELSE IF Len(set) > 0 /\ set[1].Type # sig.TypeCovered THEN ErrTypeMismatch
    ELSE VerifySignature(sig, key, BuildSignedData(sig, set, draws))

----------------------------------------------------------------------------
(* SpecSign: an RRset is signed; the RRSIG is then verified against a key, *)
(* an RRset and a time, or the signed data is built twice                  *)

\* most records in an RRset
MaxRRset == 2

\* DNSKEY public keys: RSA (exponent length 1, exponent 3, two modulus
\* octets), ECDSA (X || Y), Ed25519
RSAPublicA == <<1, 3, 187, 17>>

RSAPublicB == <<1, 3, 201, 5>>

DNSKEY(alg, pub) == [Flags |-> 256, Protocol |-> 3, Algorithm |-> alg, PublicKey |-> pub]

RSAPrivate(pub) ==
    [kind |-> "rsa", N |-> parseRSAPublicKey(pub).key.N, E |-> parseRSAPublicKey(pub).key.E,
     Size |-> Len(pub) - 2]

ECDSAPrivate(coordLen, i) ==
    [kind |-> "ecdsa", Curve |-> coordLen, X |-> Octets(coordLen, i), Y |-> Octets(coordLen, i + 40)]

ECDSAPublic(coordLen, i) == Octets(coordLen, i) \o Octets(coordLen, i + 40)

Ed25519Private(i) == [kind |-> "ed25519", Pub |-> Octets(32, i)]

\* consistent key pairs of every supported algorithm, an RSA pair under
\* RSASHA1, and a DNSKEY with the private key of another
KeyPairs ==
    {<<DNSKEY(AlgorithmRSASHA256, RSAPublicA), RSAPrivate(RSAPublicA)>>,
     <<DNSKEY(AlgorithmRSASHA512, RSAPublicA), RSAPrivate(RSAPublicA)>>,
     <<DNSKEY(AlgorithmECDSAP256, ECDSAPublic(32, 10)), ECDSAPrivate(32, 10)>>,
     <<DNSKEY(AlgorithmECDSAP384, ECDSAPublic(48, 30)), ECDSAPrivate(48, 30)>>,
     <<DNSKEY(AlgorithmED25519, Octets(32, 90)), Ed25519Private(90)>>,
     <<DNSKEY(AlgorithmRSASHA1, RSAPublicA), RSAPrivate(RSAPublicA)>>,
     <<DNSKEY(AlgorithmECDSAP256, ECDSAPublic(32, 10)), ECDSAPrivate(32, 20)>>}

\* the signers NewSigner returns
Signers ==
    {NewSigner(kp[1], kp[2]).signer : kp \in {x \in KeyPairs : NewSigner(x[1], x[2]).err = Nil}}

SupportedAlgorithms ==
    {AlgorithmRSASHA256, AlgorithmRSASHA512, AlgorithmECDSAP256, AlgorithmECDSAP384,
     AlgorithmED25519}

\* a DNSKEY of the same algorithm as key, of another key pair
OtherKey(key) ==
    IF key.Algorithm \in {AlgorithmRSASHA256, AlgorithmRSASHA512, AlgorithmRSASHA1}
    THEN DNSKEY(key.Algorithm, RSAPublicB)
    ELSE IF key.Algorithm = AlgorithmECDSAP256 THEN DNSKEY(key.Algorithm, ECDSAPublic(32, 20))
    ELSE IF key.Algorithm = AlgorithmECDSAP384 THEN DNSKEY(key.Algorithm, ECDSAPublic(48, 40))
    ELSE DNSKEY(key.Algorithm, Octets(32, 100))

UnsupportedKey == DNSKEY(AlgorithmRSASHA1, RSAPublicA)

\* the keys handed to VerifyRRSIGAt
VerifyKeys(s) == {s.Key, OtherKey(s.Key), UnsupportedKey}

\* sequences of 1..n distinct elements of pool
RECURSIVE DistinctSeqs(_, _)
DistinctSeqs(pool, n) ==
    IF n = 0 THEN {}
    ELSE {<<d>> : d \in pool}
         \cup DistinctSeqs(pool, n - 1)
         \cup {Append(s, d) : s \in DistinctSeqs(pool, n - 1), d \in pool}

NoRepeat(s) == \A i, j \in 1..Len(s) : i # j => s[i] # s[j]

\* record data of one type: A, NS, NULL
DataPools ==
    {{[k |-> "IP", IP |-> <<192, 0, 2, i>>, Type |-> TypeA] : i \in 1..3},
     {[k |-> "Label", Label |-> <<98, Dot>>, Type |-> TypeNS],
      [k |-> "Label", Label |-> <<99, Dot>>, Type |-> TypeNS]},
     {[k |-> "Raw", Data |-> <<7>>, Type |-> TypeNULL],
      [k |-> "Raw", Data |-> <<8>>, Type |-> TypeNULL]}}

\* the RRset of owner name with the data of ds, in that order
RRsetOf(name, ds) ==
    [i \in 1..Len(ds) |->
        [Name |-> name, Type |-> ds[i].Type, Class |-> ClassIN, TTL |-> 300, Data |-> ds[i]]]

\* the RRsets signed: one to MaxRRset records sharing owner, class and
\* type, in any order; the NULL records are at the root, the others at "a."
SignedRRsets ==
    {RRsetOf(IF ds[1].k = "Raw" THEN RootName ELSE <<97, Dot>>, ds) :
        ds \in UNION {{s \in DistinctSeqs(pool, MaxRRset) : NoRepeat(s)} : pool \in DataPools}}

\* the ID pairs of up to n (n - 1) / 2 calls of less: first lower, first
\* higher, both equal
IDPairs == {<<1, 2>>, <<2, 1>>, <<1, 1>>}

Draws(n) == [1..((n * (n - 1)) \div 2) -> IDPairs]

\* the orders of set
Orders(set) == {[i \in 1..Len(set) |-> set[p[i]]] : p \in Permutations(1..Len(set))}

\* one octet of the data changed: the last octet of an address or of raw
\* data, the first letter of a name to another letter or to upper case
TamperData(d, how) ==
    IF d.k = "IP" THEN [d EXCEPT !.IP[4] = (@ + 1) % 256]
    ELSE IF d.k = "Raw" THEN [d EXCEPT !.Data[1] = (@ + 1) % 256]
    ELSE IF how = "case" THEN [d EXCEPT !.Label[1] = @ - 32]
    ELSE [d EXCEPT !.Label[1] = @ + 2]

\* one octet of the owner name changed
TamperName(name, how) ==
    IF name = RootName THEN <<47>>
    ELSE IF how = "case" THEN [name EXCEPT ![1] = @ - 32]
    ELSE [name EXCEPT ![1] = @ + 2]

\* the RRsets that differ from set in one octet of one record's RDATA, or
\* in one octet of the owner name
Tampered(set) ==
    {[set EXCEPT ![i].Data = TamperData(@, how)] : i \in 1..Len(set), how \in {"case", "letter"}}
    \cup {[i \in 1..Len(set) |-> [set[i] EXCEPT !.Name = TamperName(@, how)]] :
             how \in {"case", "letter"}}

\* the RRsets handed to VerifyRRSIGAt
VerifyRRsets(set) == Orders(set) \cup Tampered(set) \cup {<<>>}

\* the RRSIGs handed to VerifyRRSIGAt: the one SignRRset returned, or that
\* one with another algorithm, key tag or type covered
VerifyRRSIGs(sig, s) ==
    {[sig EXCEPT !.Algorithm = a, !.KeyTag = t, !.TypeCovered = ty] :
        a \in {sig.Algorithm, AlgorithmRSASHA1},
        t \in {sig.KeyTag, KeyTag(OtherKey(s.Key)), KeyTag(UnsupportedKey)},
        ty \in {sig.TypeCovered, TypeMX}}

\* (inception, expiration) of the RRSIGs made
Windows == {<<2, 3>>, <<4, 1>>}

Times == 1..4

InitSign ==
    /\ pc = "keyed"
    /\ signer \in Signers
    /\ rrset \in SignedRRsets
    /\ rrsig = <<>> /\ serr = Nil
    /\ vsig = <<>> /\ vkey = <<>> /\ vset = <<>> /\ now = 0 /\ verr = Nil
    /\ blobA = <<>> /\ blobB = <<>>
    /\ CodecIdle
    /\ DsIdle
    /\ AuxIdle

\* rrsig, serr := signer.SignRRset(rrset, "a.", 300, inception, expiration)
DoSign ==
    /\ pc = "keyed"
    /\ \E w \in Windows, draws \in Draws(Len(rrset)) :
          /\ rrsig' = SignRRset(signer, rrset, <<97, Dot>>, 300, w[1], w[2], draws).rrsig
          /\ serr' = SignRRset(signer, rrset, <<97, Dot>>, 300, w[1], w[2], draws).err
    /\ pc' = "signed"
    /\ UNCHANGED auxVars
    /\ UNCHANGED <<codecVars, dsVars, signer, rrset, vsig, vkey, vset, now, verr, blobA, blobB>>

\* verr := VerifyRRSIGAt(vsig, vkey, vset, now)
DoVerify ==
    /\ pc = "signed"
    /\ serr = Nil
    /\ \E sig \in VerifyRRSIGs(rrsig, signer), key \in VerifyKeys(signer),
          set \in VerifyRRsets(rrset), at \in Times :
          \E draws \in Draws(Len(set)) :
              /\ vsig' = sig
              /\ vkey' = key
              /\ vset' = set
              /\ now' = at
              /\ verr' = VerifyRRSIGAt(sig, key, set, at, draws)
    /\ pc' = "verified"
    /\ UNCHANGED auxVars
    /\ UNCHANGED <<codecVars, dsVars, signer, rrset, rrsig, serr, blobA, blobB>>

\* blobA, _ := BuildSignedData(rrsig, rrset); blobB, _ := BuildSignedData(rrsig, vset)
\* with vset the records of rrset in some order
DoBuild ==
    /\ pc = "signed"
    /\ serr = Nil
    /\ \E set \in Orders(rrset) :
          \E drawsA \in Draws(Len(rrset)), drawsB \in Draws(Len(set)) :
              /\ vset' = set
              /\ blobA' = BuildSignedData(rrsig, rrset, drawsA)
              /\ blobB' = BuildSignedData(rrsig, set, drawsB)
    /\ pc' = "built"
    /\ UNCHANGED auxVars
    /\ UNCHANGED <<codecVars, dsVars, signer, rrset, rrsig, serr, vsig, vkey, now, verr>>

NextSign == DoSign \/ DoVerify \/ DoBuild

SpecSign == InitSign /\ [][NextSign]_vars

----------------------------------------------------------------------------
(* dnssec: DS records. A digest is known by its hash function and the      *)
(* octets hashed; a digest that is no hash output is a plain octet string. *)

DigestSHA1 == 1
DigestSHA256 == 2
DigestSHA384 == 4

ErrUnsupportedDigestType == "ErrUnsupportedDigestType"

\* the octets computeDSDigest hashes: canonical owner name, DNSKEY RDATA
DSDigestData(owner, key) ==
    CanonicalName(owner) \o U16(key.Flags) \o <<key.Protocol, key.Algorithm % 256>>
        \o key.PublicKey

\* computeDSDigest
computeDSDigest(owner, key, digestType) ==
    IF digestType = DigestSHA1
    THEN [digest |-> [hash |-> "SHA1", data |-> DSDigestData(owner, key)], err |-> Nil]
    ELSE IF digestType = DigestSHA256
    THEN [digest |-> [hash |-> "SHA256", data |-> DSDigestData(owner, key)], err |-> Nil]
    ELSE IF digestType = DigestSHA384
    THEN [digest |-> [hash |-> "SHA384", data |-> DSDigestData(owner, key)], err |-> Nil]
    ELSE [digest |-> <<>>, err |-> ErrUnsupportedDigestType]

\* ComputeDS
ComputeDS(owner, key, digestType) ==
    IF computeDSDigest(owner, key, digestType).err # Nil
    THEN [ds |-> <<>>, err |-> computeDSDigest(owner, key, digestType).err]
    ELSE [ds |-> [KeyTag |-> KeyTag(key), Algorithm |-> key.Algorithm,
                  DigestType |-> digestType,
                  Digest |-> computeDSDigest(owner, key, digestType).digest],
          err |-> Nil]

\* VerifyDS without the comparison of the algorithms
VerifyDSAnyAlgorithm(d, owner, key) ==
    IF d.KeyTag # KeyTag(key) THEN FALSE
    ELSE IF computeDSDigest(owner, key, d.DigestType).err # Nil THEN FALSE
    ELSE d.Digest = computeDSDigest(owner, key, d.DigestType).digest

\* VerifyDS
VerifyDS(d, owner, key) ==
    IF d.KeyTag # KeyTag(key) THEN FALSE
    ELSE IF d.Algorithm # key.Algorithm THEN FALSE
    ELSE IF computeDSDigest(owner, key, d.DigestType).err # Nil THEN FALSE
    ELSE d.Digest = computeDSDigest(owner, key, d.DigestType).digest

----------------------------------------------------------------------------
(* SpecDS: a DS record is computed from a DNSKEY and verified against a    *)
(* DS, an owner name and a DNSKEY; the key tag of the DNSKEY is computed   *)

\* most octets in a public key
MaxKeyOctets == 3

\* public keys: every octet string of 1 and 255 up to MaxKeyOctets octets
PublicKeys == UNION {[1..n -> {1, 255}] : n \in 0..MaxKeyOctets}

\* DNSKEYs: zone key and key signing key flags, algorithms 1, 8 and 13
DSKeys ==
    {[Flags |-> f, Protocol |-> 3, Algorithm |-> a, PublicKey |-> k] :
        f \in {256, 257}, a \in {AlgorithmRSAMD5, AlgorithmRSASHA256, AlgorithmECDSAP256},
        k \in PublicKeys}

\* owner names "a." and "b.a."
DSOwners == {<<97, Dot>>, <<98, Dot, 97, Dot>>}

\* the supported digest types, and 3, which has no case in computeDSDigest
DSDigestTypes == {DigestSHA1, DigestSHA256, DigestSHA384, 3}

\* key with octet i of its public key replaced by another octet
KeyWithOctet(key, i) ==
    [key EXCEPT !.PublicKey = [@ EXCEPT ![i] = IF @ = 1 THEN 255 ELSE 1]]

\* the keys that differ from key in one octet of the public key
ChangedKeys(key) == {KeyWithOctet(key, i) : i \in 1..Len(key.PublicKey)}

\* the DS records handed to VerifyDS: d, and d with one field replaced
VerifyDSInputs(d) ==
    {d, [d EXCEPT !.KeyTag = (@ + 1) % 65536],
     [d EXCEPT !.Algorithm = IF @ = AlgorithmRSASHA256 THEN AlgorithmRSASHA512
                             ELSE AlgorithmRSASHA256],
     [d EXCEPT !.DigestType = IF @ = DigestSHA256 THEN DigestSHA1 ELSE DigestSHA256],
     [d EXCEPT !.DigestType = 3],
     [d EXCEPT !.Digest = <<>>]}

InitDS ==
    /\ pc = "ds"
    /\ dsOwner \in DSOwners
    /\ dsKey \in DSKeys
    /\ dsType \in DSDigestTypes
    /\ dsRec = <<>> /\ dsErr = Nil
    /\ vds = <<>> /\ vdsOwner = <<>> /\ vdsKey = <<>> /\ dsOk = FALSE /\ tag = 0
    /\ CodecIdle
    /\ SignIdle
    /\ AuxIdle

\* dsRec, dsErr := ComputeDS(dsOwner, dsKey, dsType)
DoComputeDS ==
    /\ pc = "ds"
    /\ dsRec' = ComputeDS(dsOwner, dsKey, dsType).ds
    /\ dsErr' = ComputeDS(dsOwner, dsKey, dsType).err
    /\ pc' = "computed"
    /\ UNCHANGED auxVars
    /\ UNCHANGED <<codecVars, signVars, dsOwner, dsKey, dsType, vds, vdsOwner, vdsKey, dsOk, tag>>

\* dsOk := VerifyDS(vds, vdsOwner, vdsKey)
DoVerifyDS ==
    /\ pc = "computed"
    /\ dsErr = Nil
    /\ \E d \in VerifyDSInputs(dsRec), owner \in DSOwners,
          key \in {dsKey} \cup ChangedKeys(dsKey) :
          /\ vds' = d
          /\ vdsOwner' = owner
          /\ vdsKey' = key
          /\ dsOk' = VerifyDS(d, owner, key)
    /\ pc' = "dsverified"
    /\ UNCHANGED auxVars
    /\ UNCHANGED <<codecVars, signVars, dsOwner, dsKey, dsType, dsRec, dsErr, tag>>

\* tag := KeyTag(dsKey)
DoKeyTag ==
    /\ pc = "ds"
    /\ tag' = KeyTag(dsKey)
    /\ pc' = "tagged"
    /\ UNCHANGED auxVars
    /\ UNCHANGED <<codecVars, signVars, dsOwner, dsKey, dsType, dsRec, dsErr, vds, vdsOwner,
                   vdsKey, dsOk>>

NextDS == DoComputeDS \/ DoVerifyDS \/ DoKeyTag

SpecDS == InitDS /\ [][NextDS]_vars

----------------------------------------------------------------------------
(* Claims on Parse *)

\* the packet of TestCompressionPointerLoop: QDCOUNT = 1 and the question
\* name C0 0C at offset 12
LoopPacket == Header(4660, 256, 1, 0, 0, 0) \o <<192, 12, 0, 1, 0, 1>>

\* C1: Parse returns on every input buffer, and a name whose pointers lead
\* back to an offset already visited makes it fail with ErrInvalidLabel.
C1_DecodeTerminates ==
    pc # "start" => /\ err # NoReturn
                    /\ (buf = LoopPacket => err = ErrInvalidLabel)

\* the question name at offset 12 begins with a pointer whose target is not
\* before the pointer
ForwardPointerAt12(b) ==
    /\ Len(b) >= 14
    /\ GetU16(b, 4) >= 1
    /\ b[13] >= 192
    /\ GetU16(b, 12) % 16384 >= 12

\* C2: a compression pointer whose target is greater than or equal to its
\* own offset makes Parse fail with ErrInvalidLabel, whatever lies at the
\* target.
C2_ForwardPointerRejected ==
    (pc # "start" /\ ForwardPointerAt12(buf)) => err = ErrInvalidLabel

\* C3: Parse never crashes: it returns a message or an error value for
\* every input buffer, with no out-of-range index or slice.
C3_ParseNeverPanics == pc # "start" => err # Panic

\* C5: for every buffer Parse accepts, MarshalBinary of the parsed message
\* succeeds, Parse of its output succeeds, and the second message equals
\* the first in every field.
C5_DecodeEncodeDecode ==
    /\ (pc = "marshaled" => err2 = Nil)
    /\ (pc = "reparsed" => (err3 = Nil /\ msg2 = msg))

----------------------------------------------------------------------------
(* Claims on the encode / decode round trip *)

\* C4: for every message built from supported record types with valid
\* fully-qualified names, MarshalBinary succeeds, Parse of its output
\* succeeds, and the parsed message has the same ID, flags word and
\* sections, every name spelled as in the original.
C4_EncodeDecode ==
    /\ (pc = "encoded" => err2 = Nil)
    /\ (pc = "decoded" =>
            /\ err3 = Nil
            /\ msg2.ID = msg.ID /\ msg2.Bits = msg.Bits
            /\ msg2.Question = msg.Question /\ msg2.Answer = msg.Answer
            /\ msg2.Authority = msg.Authority /\ msg2.Additional = msg.Additional)
----------------------------------------------------------------------------
(* Claims on the signer and the verifier *)

\* t is inside the validity window of sig, both ends included
InWindow(sig, t) == sig.Inception <= t /\ t <= sig.Expiration

\* C6: for every supported algorithm, consistent key pair and non-empty
\* RRset, SignRRset returns an RRSIG, and VerifyRRSIGAt of that RRSIG, the
\* signer's key and the same records in any order returns nil at every
\* time inside the window.
C6_SignVerify ==
    /\ (pc = "signed" /\ signer.Key.Algorithm \in SupportedAlgorithms => serr = Nil)
    /\ (pc = "verified" /\ vsig = rrsig /\ vkey = signer.Key /\ vset \in Orders(rrset)
            /\ InWindow(rrsig, now)
        => verr = Nil)

\* the records of set are in ascending order of their canonical RDATA
AscendingRData(set) ==
    \A i \in 1..(Len(set) - 1) :
        ~BytesLess(encodeRDataDirect(set[i + 1]), encodeRDataDirect(set[i]))

\* C7: two BuildSignedData calls with the same RRSIG and the same records,
\* in the same or in another order, return identical octets, the records
\* emitted in ascending order of their canonical RDATA.
C7_BuildDeterministic ==
    pc = "built" =>
        /\ blobA = blobB
        /\ \E order \in Orders(rrset) :
               /\ AscendingRData(order)
               /\ blobA = SignedHeader(rrsig) \o SignedRecords(rrsig, order)

\* C8: now < Inception gives ErrSignatureNotYetValid, otherwise
\* now > Expiration gives ErrSignatureExpired, and a time inside the window
\* gives neither, whatever the key, the RRset and the signature are.
C8_ValidityWindow ==
    pc = "verified" =>
        /\ (now < vsig.Inception => verr = ErrSignatureNotYetValid)
        /\ (now >= vsig.Inception /\ now > vsig.Expiration => verr = ErrSignatureExpired)
        /\ (InWindow(vsig, now) => verr \notin {ErrSignatureNotYetValid, ErrSignatureExpired})

\* the key check of VerifyRRSIGAt passes
KeyMatches == KeyTag(vkey) = vsig.KeyTag /\ vkey.Algorithm = vsig.Algorithm

\* the type check of VerifyRRSIGAt passes
TypeMatches == vset = <<>> \/ vset[1].Type = vsig.TypeCovered

\* C9: VerifyRRSIGAt returns the error of the first check that fails, in the
\* order validity window, key match, type covered, algorithm dispatch; a
\* result that comes from evaluating the signature (nil or
\* ErrInvalidSignature) is returned only when all four passed.
C9_CheckOrder ==
    pc = "verified" =>
        /\ (~InWindow(vsig, now) => verr \in {ErrSignatureExpired, ErrSignatureNotYetValid})
        /\ (InWindow(vsig, now) /\ ~KeyMatches => verr = ErrNoMatchingKey)
        /\ (InWindow(vsig, now) /\ KeyMatches /\ ~TypeMatches => verr = ErrTypeMismatch)
        /\ (InWindow(vsig, now) /\ KeyMatches /\ TypeMatches
                /\ vsig.Algorithm \notin SupportedAlgorithms
            => verr = ErrUnsupportedAlgorithm)
        /\ (verr \in {Nil, ErrInvalidSignature}
            => /\ InWindow(vsig, now) /\ KeyMatches /\ TypeMatches
               /\ vsig.Algorithm \in SupportedAlgorithms)

\* a verification stopped by the type check although the algorithm of the
\* RRSIG is unsupported as well
C9_TypeBeforeDispatch ==
    /\ pc = "verified"
    /\ verr = ErrTypeMismatch
    /\ vset # <<>>
    /\ vsig.Algorithm \notin SupportedAlgorithms

\* C10: an RRSIG made by SignRRset, verified with the signer's key inside
\* the window against an RRset that differs from the signed one in an
\* octet of a record's RDATA or of the owner name, gives
\* ErrInvalidSignature.
C10_TamperDetected ==
    (pc = "verified" /\ vsig = rrsig /\ vkey = signer.Key /\ InWindow(rrsig, now)
        /\ vset \in Tampered(rrset))
    => verr = ErrInvalidSignature

----------------------------------------------------------------------------
(* Claims on DS records and key tags *)

SupportedDigestTypes == {DigestSHA1, DigestSHA256, DigestSHA384}

\* the digest of CanonicalName(owner) || DNSKEY RDATA under digest type t
DigestOf(t, owner, key) ==
    [hash |-> IF t = DigestSHA1 THEN "SHA1" ELSE IF t = DigestSHA256 THEN "SHA256" ELSE "SHA384",
     data |-> CanonicalName(owner) \o <<key.Flags \div 256, key.Flags % 256, key.Protocol,
                                       key.Algorithm>> \o key.PublicKey]

\* C11: VerifyDS(ds, owner, key) is true exactly when ds.KeyTag is the key
\* tag of key, ds.Algorithm is the algorithm of key and ds.Digest is the
\* digest of CanonicalName(owner) || DNSKEY RDATA under ds.DigestType; so a
\* DS made by ComputeDS verifies against its owner and key, and against no
\* key that differs in one octet of the public key
C11_VerifyDS ==
    pc = "dsverified" =>
        /\ dsOk <=> (/\ vds.KeyTag = KeyTag(vdsKey)
                     /\ vds.Algorithm = vdsKey.Algorithm
                     /\ vds.DigestType \in SupportedDigestTypes
                     /\ vds.Digest = DigestOf(vds.DigestType, vdsOwner, vdsKey))
        /\ (vds = dsRec /\ vdsOwner = dsOwner /\ vdsKey = dsKey) => dsOk
        /\ (vds = dsRec /\ vdsKey \in ChangedKeys(dsKey)) => ~dsOk

\* a DS made by ComputeDS under SHA-384 is verified against its owner and key
C11_ComputedVerifies ==
    /\ pc = "dsverified"
    /\ dsOk
    /\ vds = dsRec /\ vdsOwner = dsOwner /\ vdsKey = dsKey
    /\ dsType = DigestSHA384
    /\ Len(dsKey.PublicKey) > 0

\* S: the sum over the RDATA octets, octet << 8 at even 0-based indices
RECURSIVE OctetSum(_, _)
OctetSum(wire, n) ==
    IF n = 0 THEN 0
    ELSE OctetSum(wire, n - 1) + (IF (n - 1) % 2 = 0 THEN wire[n] * 256 ELSE wire[n])

KeyRData(key) ==
    <<key.Flags \div 256, key.Flags % 256, key.Protocol, key.Algorithm>> \o key.PublicKey

----------------------------------------------------------------------------
(* Claims on record data and EDNS *)

\* the response to "a. IN A" with one answer record of the unassigned-to-a-
\* decoder type 99, owner a pointer to the question name, RDATA 01 02
UnknownTypePacket ==
    Header(9071, 33152, 1, 1, 0, 0) \o <<1, 97, 0, 0, 1, 0, 1>>
        \o <<192, 12>> \o U16(99) \o U16(1) \o U32(205) \o U16(2) \o <<1, 2>>

\* C13: a record whose TYPE has no dedicated decoder is decoded as a Raw
\* value with that type and the RDATA octets unchanged, and Parse of the
\* message succeeds
C13_UnknownTypeRaw ==
    (pc = "parsed" /\ buf = UnknownTypePacket) =>
        /\ err = Nil
        /\ Len(msg.Answer) = 1
        /\ msg.Answer[1].Data = [k |-> "Raw", Data |-> <<1, 2>>, Type |-> 99]

\* the (code, length, data) triples of an OPT RDATA, in wire order
RECURSIVE OptTriples(_)
OptTriples(d) ==
    IF Len(d) < 4 THEN <<>>
    ELSE <<[Code |-> d[1] * 256 + d[2], Data |-> SubSeq(d, 5, 4 + d[3] * 256 + d[4])]>>
         \o OptTriples(SubSeq(d, 5 + d[3] * 256 + d[4], Len(d)))

\* buf holds the record rd, an OPT record, in its additional section
OPTInAdditional(owner, rd, extra) ==
    rd[1] = TypeOPT /\ buf = RecordPacket(<<0, 0, 1>>, owner, rd, extra)

\* C14: after a successful Parse, HasEDNS holds exactly when the additional
\* section of the input held an OPT record; then ReqUDPSize is its CLASS,
\* OptRCode its TTL and Opts its RDATA as (code, length, data) triples in
\* wire order; the Additional list holds no OPT record
C14_EDNSRehomed ==
    (pc = "parsed" /\ err = Nil) =>
        /\ msg.HasEDNS <=> \E owner \in OwnerInputs, rd \in RDataInputs, extra \in {0, 1} :
                               OPTInAdditional(owner, rd, extra)
        /\ \A owner \in OwnerInputs, rd \in RDataInputs, extra \in {0, 1} :
               OPTInAdditional(owner, rd, extra) =>
                   /\ msg.ReqUDPSize = rd[2]
                   /\ msg.OptRCode = 205
                   /\ msg.Opts = OptTriples(rd[3])
        /\ \A i \in 1..Len(msg.Additional) : msg.Additional[i].Type # TypeOPT

\* an OPT record with two options was re-homed
C14_TwoOptions ==
    /\ pc = "parsed" /\ err = Nil
    /\ msg.HasEDNS
    /\ msg.ReqUDPSize = 1232
    /\ Len(msg.Opts) = 2
    /\ msg.Additional = <<>>

\* C15: MarshalBinary of a message with HasEDNS set appends one OPT record
\* to the additional section and counts it in ARCOUNT, so that Parse of the
\* output has the HasEDNS, ReqUDPSize, OptRCode and Opts of the message
C15_EDNSEmitted ==
    /\ (pc = "encoded" /\ msg.HasEDNS /\ err2 = Nil) =>
           GetU16(out, 10) = Len(msg.Additional) + 1
    /\ (pc = "decoded" /\ msg.HasEDNS) =>
           /\ err3 = Nil
           /\ msg2.HasEDNS
           /\ msg2.ReqUDPSize = msg.ReqUDPSize
           /\ msg2.OptRCode = msg.OptRCode
           /\ msg2.Opts = msg.Opts

----------------------------------------------------------------------------
(* Claims on the encoding of names and records *)

\* octets of the wire form of a fully-qualified name with no empty label:
\* a length octet for every dot, and the terminating zero octet
NameWireLen(name) == Len(name) + 1

\* C16: a name whose wire form has exactly 255 octets is encoded, and a name
\* whose wire form has 256 octets or more fails with ErrNameTooLong
C16_NameLimit ==
    (pc = "encoded" /\ msg \in LongNameMessages) =>
        /\ NameWireLen(msg.Question[1].Name) = 255 => err2 = Nil
        /\ NameWireLen(msg.Question[1].Name) >= 256 => err2 = ErrNameTooLong

\* the message names the root as question name, owner name or name inside
\* the record data
NamesRoot(m) ==
    \/ m.Question[1].Name = RootName
    \/ /\ m.Answer # <<>>
       /\ \/ m.Answer[1].Name = RootName
          \/ (m.Answer[1].Data.k = "Label" /\ m.Answer[1].Data.Label = RootName)

\* C17: encoding the root name "." succeeds, emits one zero octet and adds
\* no entry to the compression map
C17_RootName ==
    (pc = "encoded" /\ msg \in BuiltMessages) =>
        /\ NamesRoot(msg) => err2 = Nil
        /\ (msg.Question[1].Name = RootName /\ msg.Answer = <<>>) =>
               out = Header(4660, 256, 1, 0, 0, 0) \o <<0>> \o <<0, 1, 0, 1>>
        /\ appendLabel(NewContext(<<>>), RootName).c.map = <<>>

\* C18: the reserved Z bits (mask 0x0070) of the flags word are zero in
\* every buffer MarshalBinary produces
C18_ZBitsCleared ==
    (pc = "marshaled" /\ err2 = Nil) => (GetU16(out, 2) \div 16) % 8 = 0

\* offset after the name that starts at offset off of raw: after its zero
\* octet, or after its compression pointer
RECURSIVE WireNameEnd(_, _)
WireNameEnd(raw, off) ==
    IF raw[off + 1] = 0 THEN off + 1
    ELSE IF raw[off + 1] >= 192 THEN off + 2
    ELSE WireNameEnd(raw, off + 1 + raw[off + 1])

\* offset of the RDLENGTH field of the first record after one question
RDLengthOffset(raw) == WireNameEnd(raw, WireNameEnd(raw, 12) + 4) + 8

\* C19: the RDLENGTH field of a record MarshalBinary writes is the number of
\* octets emitted for its RDATA, a compression pointer counting as 2, and
\* encoding fails with ErrInvalidLen when that number exceeds 65535
C19_RDLength ==
    (pc = "encoded" /\ Len(msg.Answer) = 1) =>
        /\ err2 = Nil =>
               GetU16(out, RDLengthOffset(out)) = Len(out) - (RDLengthOffset(out) + 2)
        /\ (msg.Answer[1].Data.k = "Raw" /\ Len(msg.Answer[1].Data.Data) > 65535) =>
               err2 = ErrInvalidLen
        /\ (msg.Answer[1].Data.k = "Raw" /\ Len(msg.Answer[1].Data.Data) = 65535) =>
               err2 = Nil

\* an NS record whose target was written as a compression pointer has
\* RDLENGTH 2
C19_PointerCounted ==
    /\ pc = "encoded" /\ err2 = Nil
    /\ Len(msg.Answer) = 1
    /\ msg.Answer[1].Data.k = "Label"
    /\ GetU16(out, RDLengthOffset(out)) = 2
    /\ out[Len(out) - 1] >= 192

\* the length octets of the character-strings of the RDATA that starts at
\* offset pos of raw and runs to its end
RECURSIVE ChunkLens(_, _)
ChunkLens(raw, pos) ==
    IF pos >= Len(raw) THEN <<>>
    ELSE <<raw[pos + 1]>> \o ChunkLens(raw, pos + 1 + raw[pos + 1])

----------------------------------------------------------------------------
(* SignRRset and BuildSignedData over owner names: the root, a wildcard,   *)
(* upper case, and records with a TTL other than the RRSIG's OrigTTL.      *)

Asterisk == 42

\* owner names: ".", "a.", "A.", "b.a.", "*.a.", "*."
OwnerNames ==
    {RootName, <<97, Dot>>, <<65, Dot>>, <<98, Dot, 97, Dot>>, <<Asterisk, Dot, 97, Dot>>,
     <<Asterisk, Dot>>}

\* TTL fields of the records signed; SignRRset is called with 300
RecordTTLs == {300, 600}

\* RRsets of one record: an A or a NULL record of every owner name and TTL
OwnerRRsets ==
    {<<[Name |-> n, Type |-> d.Type, Class |-> ClassIN, TTL |-> ttl, Data |-> d]>> :
        n \in OwnerNames, ttl \in RecordTTLs,
        d \in {[k |-> "IP", IP |-> <<192, 0, 2, 1>>, Type |-> TypeA],
               [k |-> "Raw", Data |-> <<7>>, Type |-> TypeNULL]}}

InitOwner ==
    /\ pc = "keyed"
    /\ signer \in {s \in Signers : s.Key.Algorithm \in {AlgorithmECDSAP256, AlgorithmED25519}}
    /\ rrset \in OwnerRRsets
    /\ rrsig = <<>> /\ serr = Nil
    /\ vsig = <<>> /\ vkey = <<>> /\ vset = <<>> /\ now = 0 /\ verr = Nil
    /\ blobA = <<>> /\ blobB = <<>>
    /\ CodecIdle
    /\ DsIdle
    /\ AuxIdle

SpecOwner == InitOwner /\ [][NextSign]_vars

\* the labels of name that are neither the root label nor a leading "*"
SignedLabels(name) ==
    LET labels == SplitDots(TrimDot(name))
        count == Cardinality({i \in 1..Len(labels) : labels[i] # <<>>})
    IN  IF labels[1] = <<Asterisk>> THEN count - 1 ELSE count

\* C21: the Labels field of the RRSIG that SignRRset returns is the number
\* of labels of rrset[0].Name, the root label and a leading wildcard label
\* "*" not counted.
C21_Labels ==
    (pc # "keyed" /\ serr = Nil) => rrsig.Labels = SignedLabels(rrset[1].Name)

----------------------------------------------------------------------------
(* NewSigner over DNSKEYs and private keys that agree or not.              *)

\* public key octets of the DNSKEYs handed to NewSigner
NewSignerPublicKeys ==
    {RSAPublicA, RSAPublicB, ECDSAPublic(32, 10), ECDSAPublic(32, 20), ECDSAPublic(48, 30),
     Octets(32, 90), Octets(32, 100), <<>>}

NewSignerKeys ==
    {DNSKEY(alg, pub) : alg \in SupportedAlgorithms \cup {AlgorithmRSASHA1},
                        pub \in NewSignerPublicKeys}

\* private keys: RSA, ECDSA P-256 and P-384, Ed25519, and a crypto.Signer
\* of another type
NewSignerPrivateKeys ==
    {RSAPrivate(RSAPublicA), ECDSAPrivate(32, 10), ECDSAPrivate(48, 30), Ed25519Private(90),
     [kind |-> "other"]}

\* the longest DNSKEY public key an RSA private key is paired with: the
\* exponent and modulus of the model's RSA keys are small integers
MaxRSAKeyOctets == 4

InitKey ==
    /\ pc = "unkeyed"
    /\ nsKey \in NewSignerKeys
    /\ nsPriv \in NewSignerPrivateKeys
    /\ nsPriv.kind = "rsa" => Len(nsKey.PublicKey) <= MaxRSAKeyOctets
    /\ nsSigner = <<>> /\ nsErr = Nil
    /\ bmTypes = <<>> /\ bmData = <<>> /\ bmBack = <<>>
    /\ cnName = <<>> /\ cnOut = <<>>
    /\ hBits = 0 /\ hOp = "" /\ hArg = 0 /\ hOut = 0
    /\ CodecIdle
    /\ SignIdle
    /\ DsIdle

\* nsSigner, nsErr := NewSigner(nsKey, nsPriv)
DoNewSigner ==
    /\ pc = "unkeyed"
    /\ nsSigner' = NewSigner(nsKey, nsPriv).signer
    /\ nsErr' = NewSigner(nsKey, nsPriv).err
    /\ pc' = "newsigner"
    /\ UNCHANGED <<codecVars, signVars, dsVars, nsKey, nsPriv, bmTypes, bmData, bmBack, cnName,
                   cnOut, hBits, hOp, hArg, hOut>>

NextKey == DoNewSigner

SpecKey == InitKey /\ [][NextKey]_vars

\* key and priv agree in algorithm, curve and public key octets
KeyPairAgrees(key, priv) ==
    IF priv.kind = "rsa"
    THEN /\ key.Algorithm \in {AlgorithmRSASHA1, AlgorithmRSASHA256, AlgorithmRSASHA512}
         /\ parseRSAPublicKey(key.PublicKey).err = Nil
         /\ parseRSAPublicKey(key.PublicKey).key = [N |-> priv.N, E |-> priv.E]
    ELSE IF priv.kind = "ecdsa"
    THEN /\ \/ key.Algorithm = AlgorithmECDSAP256 /\ priv.Curve = 32
            \/ key.Algorithm = AlgorithmECDSAP384 /\ priv.Curve = 48
         /\ key.PublicKey = priv.X \o priv.Y
    ELSE IF priv.kind = "ed25519"
    THEN key.Algorithm = AlgorithmED25519 /\ key.PublicKey = priv.Pub
    ELSE FALSE

\* C22: NewSigner succeeds only if the DNSKEY and the private key agree in
\* algorithm, curve and public key octets, and returns ErrKeyMismatch
\* otherwise.
C22_KeyMismatch ==
    pc = "newsigner" =>
        /\ nsErr = Nil => KeyPairAgrees(nsKey, nsPriv)
        /\ ~KeyPairAgrees(nsKey, nsPriv) => nsErr = ErrKeyMismatch

----------------------------------------------------------------------------
(* NSEC / NSEC3 type bitmaps.  A Type is a uint16.                         *)

\* windows[window] of EncodeTypeBitmap, as the set of its elements: the low
\* octets of the types of that window
WindowBits(types, window) ==
    {types[i] % 256 : i \in {j \in 1..Len(types) : (types[j] \div 256) % 256 = window}}

\* the bitmap octet of byteIdx after "bitmap[byteIdx] |= 1 << bitIdx" for
\* every bit of bits, a variant setting bit (bit % 8) instead of 7 - (bit % 8)
BitmapByteLSBFirst(bits, byteIdx) ==
    SeqSum([b \in 1..8 |-> IF byteIdx * 8 + (b - 1) \in bits THEN 2 ^ (b - 1) ELSE 0])

\* the bitmap octet of byteIdx after "bitmap[byteIdx] |= 1 << bitIdx" for
\* every bit of bits, bitIdx being 7 - (bit % 8)
BitmapByte(bits, byteIdx) ==
    SeqSum([b \in 1..8 |-> IF byteIdx * 8 + (b - 1) \in bits THEN 2 ^ (7 - (b - 1)) ELSE 0])

\* maxBit of a window
MaxBit(bits) == CHOOSE b \in bits : \A c \in bits : c <= b

\* the block of one window: window, bitmapLen, bitmap
WindowBlock(window, bits) ==
    <<window, (MaxBit(bits) \div 8) + 1>>
    \o [i \in 1..((MaxBit(bits) \div 8) + 1) |-> BitmapByte(bits, i - 1)]

\* the first window from window on that "bits, ok := windows[uint8(window)]"
\* finds, 256 when there is none
NextWindow(types, window) ==
    IF \A w \in window..255 : WindowBits(types, w) = {} THEN 256
    ELSE CHOOSE w \in window..255 :
             /\ WindowBits(types, w) # {}
             /\ \A v \in window..(w - 1) : WindowBits(types, v) = {}

\* the loop "for window := 0; window <= 255; window++" of EncodeTypeBitmap,
\* the windows not in the map skipped in one step
RECURSIVE EncodeWindows(_, _)
EncodeWindowsAt(types, window) ==
    IF window > 255 THEN <<>>
    ELSE WindowBlock(window, WindowBits(types, window)) \o EncodeWindows(types, window + 1)

EncodeWindows(types, window) == EncodeWindowsAt(types, NextWindow(types, window))

\* EncodeTypeBitmap; nil is the empty sequence
EncodeTypeBitmap(types) == IF Len(types) = 0 THEN <<>> ELSE EncodeWindows(types, 0)

\* the elements of set in ascending order
RECURSIVE Ascending(_)
Ascending(set) ==
    IF set = {} THEN <<>>
    ELSE LET least == CHOOSE x \in set : \A y \in set : x <= y
         IN  <<least>> \o Ascending(set \ {least})

\* the i * 8 + bit for which "b&(0x80>>bit) != 0" holds in a bitmap
SetBits(bitmap) ==
    {n \in 0..(Len(bitmap) * 8 - 1) : (bitmap[(n \div 8) + 1] \div (2 ^ (7 - (n % 8)))) % 2 = 1}

\* the loops over the bitmap of one block of decodeTypeBitmap: the types
\* appended, by octet and then by bit
DecodeBits(window, bitmap) ==
    [k \in 1..Cardinality(SetBits(bitmap)) |->
        (window * 256 + Ascending(SetBits(bitmap))[k]) % 65536]

\* decodeTypeBitmap
RECURSIVE decodeTypeBitmap(_)
decodeTypeBitmap(data) ==
    IF Len(data) < 2 THEN <<>>
    ELSE IF Len(data) < 2 + data[2] THEN <<>>
    ELSE DecodeBits(data[1], Slice(data, 2, 2 + data[2]))
         \o decodeTypeBitmap(Slice(data, 2 + data[2], Len(data)))

\* the longest type list encoded
MaxTypes == 3

\* types of the first, second and last window, at the edges of the bitmap
\* octets, and A, RRSIG, NSEC
BitmapTypes == {0, 1, 7, 8, 46, 47, 255, 256, 257, 511, 65280, 65535}

InitBitmap ==
    /\ pc = "types"
    /\ bmTypes \in {<<>>} \cup SeqsUpTo(BitmapTypes, MaxTypes)
    /\ bmData = <<>> /\ bmBack = <<>>
    /\ nsKey = <<>> /\ nsPriv = <<>> /\ nsSigner = <<>> /\ nsErr = Nil
    /\ cnName = <<>> /\ cnOut = <<>>
    /\ hBits = 0 /\ hOp = "" /\ hArg = 0 /\ hOut = 0
    /\ CodecIdle
    /\ SignIdle
    /\ DsIdle

\* bmData := EncodeTypeBitmap(bmTypes)
DoEncodeTypeBitmap ==
    /\ pc = "types"
    /\ bmData' = EncodeTypeBitmap(bmTypes)
    /\ pc' = "bitmap"
    /\ UNCHANGED <<codecVars, signVars, dsVars, nsKey, nsPriv, nsSigner, nsErr, bmTypes, bmBack,
                   cnName, cnOut, hBits, hOp, hArg, hOut>>

\* bmBack := decodeTypeBitmap(bmData)
DoDecodeTypeBitmap ==
    /\ pc = "bitmap"
    /\ bmBack' = decodeTypeBitmap(bmData)
    /\ pc' = "typesback"
    /\ UNCHANGED <<codecVars, signVars, dsVars, nsKey, nsPriv, nsSigner, nsErr, bmTypes, bmData,
                   cnName, cnOut, hBits, hOp, hArg, hOut>>

NextBitmap == DoEncodeTypeBitmap \/ DoDecodeTypeBitmap

SpecBitmap == InitBitmap /\ [][NextBitmap]_vars

\* the blocks of a type bitmap, each as <<window, bitmap>>
RECURSIVE BitmapBlocks(_)
BitmapBlocks(data) ==
    IF Len(data) < 2 \/ Len(data) < 2 + data[2] THEN <<>>
    ELSE <<(<<data[1], SubSeq(data, 3, 2 + data[2])>>)>>
         \o BitmapBlocks(SubSeq(data, 3 + data[2], Len(data)))

\* the octets of the blocks
BlocksLen(blocks) == SeqSum([i \in 1..Len(blocks) |-> 2 + Len(blocks[i][2])])

\* C23: EncodeTypeBitmap emits one block per occupied window of 256 types,
\* in ascending window order, each with a bitmap of 1 to 32 octets in which
\* the bit of a type is set most significant bit first, and
\* decodeTypeBitmap of the output returns the distinct types of the input
\* in ascending order.
C23_TypeBitmap ==
    pc = "typesback" =>
        LET blocks == BitmapBlocks(bmData)
            S == {bmTypes[i] : i \in 1..Len(bmTypes)}
        IN  /\ BlocksLen(blocks) = Len(bmData)
            /\ [i \in 1..Len(blocks) |-> blocks[i][1]] = Ascending({t \div 256 : t \in S})
            /\ \A i \in 1..Len(blocks) : Len(blocks[i][2]) \in 1..32
            /\ \A t \in S :
                  \E i \in 1..Len(blocks) :
                      /\ blocks[i][1] = t \div 256
                      /\ Len(blocks[i][2]) > (t % 256) \div 8
                      /\ (blocks[i][2][((t % 256) \div 8) + 1] \div (2 ^ (7 - (t % 8)))) % 2 = 1
            /\ bmBack = Ascending(S)

\* a list out of order with a duplicate, over two windows, was encoded and
\* decoded to its distinct types in ascending order
C23_TwoWindows ==
    /\ pc = "typesback"
    /\ bmTypes = <<257, 1, 257>>
    /\ bmData = <<0, 1, 64, 1, 1, 64>>
    /\ bmBack = <<1, 257>>

----------------------------------------------------------------------------
(* SpecLongWire: buffers whose names have several long labels, written out *)
(* or ended by a compression pointer, are parsed, encoded and parsed again *)

\* the labels "aaa..a" of the lengths lens in wire form, without the root
RECURSIVE WireLabels(_)
WireLabels(lens) ==
    IF lens = <<>> THEN <<>>
    ELSE <<Head(lens)>> \o [i \in 1..Head(lens) |-> 97] \o WireLabels(Tail(lens))

\* a query for a name of MaxLabels labels
LongWireQueries ==
    {Header(4660, 256, 1, 0, 0, 0) \o WireLabels(lens) \o <<0, 0, 1, 0, 1>> :
        lens \in [1..MaxLabels -> LabelLens]}

\* a response whose question name has the last two labels and whose answer
\* is an A record owned by the first MaxLabels - 2 labels and a pointer to
\* the question name at offset 12
LongWireResponses ==
    {Header(4660, 33152, 1, 1, 0, 0)
        \o WireLabels(SubSeq(lens, MaxLabels - 1, MaxLabels)) \o <<0, 0, 1, 0, 1>>
        \o WireLabels(SubSeq(lens, 1, MaxLabels - 2)) \o <<192, 12>>
        \o U16(TypeA) \o U16(ClassIN) \o U32(205) \o U16(4) \o <<192, 0, 2, 1>> :
        lens \in [1..MaxLabels -> LabelLens]}

InitLongWire ==
    /\ pc = "start"
    /\ buf \in LongWireQueries \cup LongWireResponses
    /\ msg = EmptyMessage
    /\ err = Nil
    /\ out = <<>>
    /\ err2 = Nil
    /\ msg2 = EmptyMessage
    /\ err3 = Nil
    /\ SignIdle
    /\ DsIdle
    /\ AuxIdle

SpecLongWire == InitLongWire /\ [][Next]_vars

\* the names of the questions and the owner names of the records of m
MessageNames(m) ==
    {m.Question[i].Name : i \in 1..Len(m.Question)}
    \cup {m.Answer[i].Name : i \in 1..Len(m.Answer)}
    \cup {m.Authority[i].Name : i \in 1..Len(m.Authority)}
    \cup {m.Additional[i].Name : i \in 1..Len(m.Additional)}

\* C24: a name whose expanded form is longer than 255 octets is not
\* decoded: no successful Parse returns a name of more than 255 octets.
C24_DecodeNameLimit ==
    (pc # "start" /\ err = Nil) => \A n \in MessageNames(msg) : Len(n) <= 255

----------------------------------------------------------------------------
(* SpecBadData: the messages of SpecRoundTrip, and responses whose owner   *)
(* name or record data holds a name that cannot be encoded, are encoded    *)
(* and the output is parsed                                                *)

\* "a" (not fully qualified), "a..b." (an empty label), a label of 64
\* octets, and "b." which encodes
DataNames ==
    {<<97>>, <<97, Dot, Dot, 98, Dot>>, [i \in 1..64 |-> 97] \o <<Dot>>, <<98, Dot>>}

\* NS, MX and SOA data naming n
DataNaming(n) ==
    {[k |-> "Label", Label |-> n, Type |-> TypeNS],
     [k |-> "MX", Pref |-> 5, Server |-> n],
     [k |-> "SOA", MName |-> n, RName |-> <<98, Dot>>, Serial |-> 1, Refresh |-> 2, Retry |-> 3,
      Expire |-> 4, Minimum |-> 5],
     [k |-> "SOA", MName |-> <<98, Dot>>, RName |-> n, Serial |-> 1, Refresh |-> 2, Retry |-> 3,
      Expire |-> 4, Minimum |-> 5]}

TypeOfNaming(d) == IF d.k = "SOA" THEN TypeSOA ELSE TypeOfData(d)

\* a response to a query for "a." with one answer: the owner name and the
\* name in the data are each from DataNames
BadDataMessages ==
    {[EmptyMessage EXCEPT !.ID = 4660, !.Bits = 33152,
                          !.Question = <<[Name |-> <<97, Dot>>, Type |-> TypeA, Class |-> ClassIN]>>,
                          !.Answer = <<[Name |-> owner, Type |-> TypeOfNaming(d), Class |-> ClassIN,
                                        TTL |-> 300, Data |-> d]>>] :
        owner \in DataNames, d \in UNION {DataNaming(n) : n \in DataNames}}

InitBadData ==
    /\ pc = "built"
    /\ msg \in BuiltMessages \cup BadDataMessages
    /\ buf = <<>>
    /\ err = Nil
    /\ out = <<>>
    /\ err2 = Nil
    /\ msg2 = EmptyMessage
    /\ err3 = Nil
    /\ SignIdle
    /\ DsIdle
    /\ AuxIdle

SpecBadData == InitBadData /\ [][NextRoundTrip]_vars

\* a name the encoder has to refuse when no Base is set: not the root, and
\* not fully qualified, or with an empty label, or with a label of more
\* than 63 octets
Unencodable(n) ==
    /\ n # RootName
    /\ \/ ~HasDotSuffix(n)
       \/ \E i \in 1..Len(SplitDots(TrimDot(n))) :
              Len(SplitDots(TrimDot(n))[i]) = 0 \/ Len(SplitDots(TrimDot(n))[i]) > 63

\* the names in the data of a record
NamesInData(d) ==
    IF d.k = "Label" THEN {d.Label}
    ELSE IF d.k = "MX" THEN {d.Server}
    ELSE IF d.k = "SOA" THEN {d.MName, d.RName}
    ELSE {}

\* the names MarshalBinary has to encode for m
NamesToEncode(m) ==
    MessageNames(m)
    \cup UNION {NamesInData(m.Answer[i].Data) : i \in 1..Len(m.Answer)}

\* C25: MarshalBinary returns an error and no buffer whenever a question
\* name, an owner name or a name inside the record data cannot be encoded.
C25_FailFast ==
    (pc # "built" /\ msg.Base = <<>> /\ \E n \in NamesToEncode(msg) : Unencodable(n))
        => (err2 # Nil /\ out = <<>>)

\* the RDATA of a record alone, for the data of OwnerRRsets: the address
\* of an A record, the octets of a NULL record
RDataAlone(d) == IF d.k = "IP" THEN d.IP ELSE d.Data

\* C26: for every record type, the octets BuildSignedData emits per record
\* are the canonical owner name, type, class, the OrigTTL of the RRSIG, the
\* length of the canonical RDATA and that RDATA alone; the record's own TTL
\* has no part in them.
C26_SignedRecordBytes ==
    pc = "built" =>
        blobA = SignedHeader(rrsig)
                \o CanonicalName(rrset[1].Name) \o U16(rrset[1].Type) \o U16(rrset[1].Class)
                \o U32(rrsig.OrigTTL) \o U16(Len(RDataAlone(rrset[1].Data)))
                \o RDataAlone(rrset[1].Data)

----------------------------------------------------------------------------
(* CanonicalName over short names: the root, upper and lower case, with    *)
(* and without the trailing dot.                                           *)

\* the longest name handed to CanonicalName
MaxCanonLen == 4

\* the names of letters a, A, b and dots without an empty label, and "."
CanonNames ==
    {RootName}
    \cup {n \in SeqsUpTo({97, 65, 98, Dot}, MaxCanonLen) :
             /\ n[1] # Dot
             /\ \A i \in 1..(Len(n) - 1) : ~(n[i] = Dot /\ n[i + 1] = Dot)}

InitCanon ==
    /\ pc = "name"
    /\ cnName \in CanonNames
    /\ cnOut = <<>>
    /\ nsKey = <<>> /\ nsPriv = <<>> /\ nsSigner = <<>> /\ nsErr = Nil
    /\ bmTypes = <<>> /\ bmData = <<>> /\ bmBack = <<>>
    /\ hBits = 0 /\ hOp = "" /\ hArg = 0 /\ hOut = 0
    /\ CodecIdle
    /\ SignIdle
    /\ DsIdle

\* cnOut := CanonicalName(cnName)
DoCanonicalName ==
    /\ pc = "name"
    /\ cnOut' = CanonicalName(cnName)
    /\ pc' = "canonical"
    /\ UNCHANGED <<codecVars, signVars, dsVars, nsKey, nsPriv, nsSigner, nsErr, bmTypes, bmData,
                   bmBack, cnName, hBits, hOp, hArg, hOut>>

NextCanon == DoCanonicalName

SpecCanon == InitCanon /\ [][NextCanon]_vars

\* the wire encoding of the labels of a name from octet i on: each label
\* as its length and its octets in lower case, then one zero octet
RECURSIVE LowerWire(_, _, _)
LowerWire(n, i, label) ==
    IF i > Len(n) THEN (IF label = <<>> THEN <<0>> ELSE <<Len(label)>> \o label \o <<0>>)
    ELSE IF n[i] = Dot
    THEN (IF label = <<>> THEN <<>> ELSE <<Len(label)>> \o label) \o LowerWire(n, i + 1, <<>>)
    ELSE LowerWire(n, i + 1, Append(label, IF n[i] \in 65..90 THEN n[i] + 32 ELSE n[i]))

\* C27: CanonicalName(name) is the uncompressed wire encoding of the
\* lowercased name ended by exactly one zero octet, the same with and
\* without the trailing dot; the root name "." gives the single octet 00.
C27_CanonicalName ==
    pc = "canonical" => cnOut = LowerWire(cnName, 1, <<>>)

----------------------------------------------------------------------------
(* HeaderBits: a uint16 with one accessor and one mutator per field.       *)

hQResp == 32768
hAuth == 1024
hTrunc == 512
hRecD == 256
hRecA == 128

\* bit i of the uint16 v
BitAt(v, i) == (v \div (2 ^ i)) % 2

\* a | b on uint16
BitOr(a, b) ==
    SeqSum([i \in 1..16 |-> IF BitAt(a, i - 1) = 1 \/ BitAt(b, i - 1) = 1 THEN 2 ^ (i - 1) ELSE 0])

\* a & ^b on uint16
BitClear(a, b) ==
    SeqSum([i \in 1..16 |-> IF BitAt(a, i - 1) = 1 /\ BitAt(b, i - 1) = 0 THEN 2 ^ (i - 1) ELSE 0])

\* "if q { *h |= mask } else { *h &= ^mask }" of SetResponse, SetAuth,
\* SetTrunc, SetRecDesired and SetRecAvailable
SetFlag(h, mask, q) == IF q THEN BitOr(h, mask) ELSE BitClear(h, mask)

SetResponse(h, q) == SetFlag(h, hQResp, q)

SetAuth(h, auth) == SetFlag(h, hAuth, auth)

SetTrunc(h, trunc) == SetFlag(h, hTrunc, trunc)

SetRecDesired(h, recd) == SetFlag(h, hRecD, recd)

SetRecAvailable(h, reca) == SetFlag(h, hRecA, reca)

\* SetOpCode; q is a byte
SetOpCode(h, q) == BitOr(BitClear(h, 30720), (q % 16) * 2048)

\* SetRCode; rc is a byte
SetRCode(h, rc) == BitOr(BitClear(h, 15), rc)

IsResponse(h) == BitAt(h, 15) = 1

OpCode(h) == (h \div 2048) % 16

IsAuth(h) == BitAt(h, 10) = 1

IsTrunc(h) == BitAt(h, 9) = 1

IsRecDesired(h) == BitAt(h, 8) = 1

IsRecAvailable(h) == BitAt(h, 7) = 1

GetRCode(h) == h % 16

\* header values: none, all and each field alone, the Z bits, a usual
\* response
HeaderValues ==
    {0, 65535, hQResp, 30720, hAuth, hTrunc, hRecD, hRecA, 112, 15, 33152, 34179}

\* arguments of SetOpCode and SetRCode: a byte
CodeArgs == {0, 1, 5, 15, 16, 128, 255}

InitHeader ==
    /\ pc = "header"
    /\ hBits \in HeaderValues
    /\ hOp = "" /\ hArg = 0 /\ hOut = 0
    /\ nsKey = <<>> /\ nsPriv = <<>> /\ nsSigner = <<>> /\ nsErr = Nil
    /\ bmTypes = <<>> /\ bmData = <<>> /\ bmBack = <<>>
    /\ cnName = <<>> /\ cnOut = <<>>
    /\ CodecIdle
    /\ SignIdle
    /\ DsIdle

\* the variables a mutator leaves alone
HeaderFrame ==
    UNCHANGED <<codecVars, signVars, dsVars, nsKey, nsPriv, nsSigner, nsErr, bmTypes, bmData,
                bmBack, cnName, cnOut, hBits>>

\* hOut := hBits; hOut.SetRCode(rc)
DoSetRCode ==
    /\ pc = "header"
    /\ \E rc \in CodeArgs : hArg' = rc /\ hOut' = SetRCode(hBits, rc)
    /\ hOp' = "SetRCode"
    /\ pc' = "mutated"
    /\ HeaderFrame

\* hOut := hBits; hOut.SetOpCode(q)
DoSetOpCode ==
    /\ pc = "header"
    /\ \E q \in CodeArgs : hArg' = q /\ hOut' = SetOpCode(hBits, q)
    /\ hOp' = "SetOpCode"
    /\ pc' = "mutated"
    /\ HeaderFrame

\* hOut := hBits; hOut.SetResponse(q)
DoSetResponse ==
    /\ pc = "header"
    /\ \E q \in BOOLEAN : hArg' = q /\ hOut' = SetResponse(hBits, q)
    /\ hOp' = "SetResponse"
    /\ pc' = "mutated"
    /\ HeaderFrame

\* hOut := hBits; hOut.SetAuth(auth)
DoSetAuth ==
    /\ pc = "header"
    /\ \E auth \in BOOLEAN : hArg' = auth /\ hOut' = SetAuth(hBits, auth)
    /\ hOp' = "SetAuth"
    /\ pc' = "mutated"
    /\ HeaderFrame

\* hOut := hBits; hOut.SetTrunc(trunc)
DoSetTrunc ==
    /\ pc = "header"
    /\ \E trunc \in BOOLEAN : hArg' = trunc /\ hOut' = SetTrunc(hBits, trunc)
    /\ hOp' = "SetTrunc"
    /\ pc' = "mutated"
    /\ HeaderFrame

\* hOut := hBits; hOut.SetRecDesired(recd)
DoSetRecDesired ==
    /\ pc = "header"
    /\ \E recd \in BOOLEAN : hArg' = recd /\ hOut' = SetRecDesired(hBits, recd)
    /\ hOp' = "SetRecDesired"
    /\ pc' = "mutated"
    /\ HeaderFrame

\* hOut := hBits; hOut.SetRecAvailable(reca)
DoSetRecAvailable ==
    /\ pc = "header"
    /\ \E reca \in BOOLEAN : hArg' = reca /\ hOut' = SetRecAvailable(hBits, reca)
    /\ hOp' = "SetRecAvailable"
    /\ pc' = "mutated"
    /\ HeaderFrame

NextHeader ==
    \/ DoSetRCode
    \/ DoSetOpCode
    \/ DoSetResponse
    \/ DoSetAuth
    \/ DoSetTrunc
    \/ DoSetRecDesired
    \/ DoSetRecAvailable

SpecHeader == InitHeader /\ [][NextHeader]_vars

\* the bits of the field a mutator is for
FieldBits(op) ==
    IF op = "SetRCode" THEN 0..3
    ELSE IF op = "SetOpCode" THEN 11..14
    ELSE IF op = "SetResponse" THEN {15}
    ELSE IF op = "SetAuth" THEN {10}
    ELSE IF op = "SetTrunc" THEN {9}
    ELSE IF op = "SetRecDesired" THEN {8}
    ELSE {7}

\* what the accessor of the field of op returns for h
FieldValue(op, h) ==
    IF op = "SetRCode" THEN GetRCode(h)
    ELSE IF op = "SetOpCode" THEN OpCode(h)
    ELSE IF op = "SetResponse" THEN IsResponse(h)
    ELSE IF op = "SetAuth" THEN IsAuth(h)
    ELSE IF op = "SetTrunc" THEN IsTrunc(h)
    ELSE IF op = "SetRecDesired" THEN IsRecDesired(h)
    ELSE IsRecAvailable(h)

\* C28: each HeaderBits mutator leaves the bits of every other field and
\* the Z bits unchanged, and the accessor of its field then returns the
\* value set (for RCODE and OPCODE the low 4 bits of the argument).
C28_MutatorFrame ==
    pc = "mutated" =>
        /\ \A i \in (0..15) \ FieldBits(hOp) : BitAt(hOut, i) = BitAt(hBits, i)
        /\ FieldValue(hOp, hOut) = (IF hOp \in {"SetRCode", "SetOpCode"} THEN hArg % 16 ELSE hArg)

----------------------------------------------------------------------------
(* SpecPointers: the messages of SpecBadData, and responses with two NS    *)
(* answers, are encoded and the output is parsed; the context MarshalBinary *)
(* is left with is that of the same steps.                                 *)

\* the context after the question section of MarshalBinary
ContextQD(m) ==
    EncodeQuestions(
        Write(NewContext(m.Base),
              U16(m.ID) \o U16(m.Bits) \o U16(Len(m.Question)) \o U16(Len(m.Answer))
              \o U16(Len(m.Authority)) \o U16(Len(m.Additional))),
        m.Question)

\* the context after the answer, authority and additional sections
ContextAN(m, q) == IF q.err # Nil THEN q ELSE EncodeResources(q.c, m.Answer)

ContextNS(m, an) == IF an.err # Nil THEN an ELSE EncodeResources(an.c, m.Authority)

ContextAR(m, ns) == IF ns.err # Nil THEN ns ELSE EncodeResources(ns.c, m.Additional)

\* the context of MarshalBinary when it returns
MarshalContext(m) == ContextAR(m, ContextNS(m, ContextAN(m, ContextQD(m)))).c

\* a response to a query for "a." with two NS answers: the first owned by
\* "b.", the second by "b." or ".", the targets from DataNames or "."
TwoAnswerMessages ==
    {[EmptyMessage EXCEPT !.ID = 4660, !.Bits = 33152,
                          !.Question = <<[Name |-> <<97, Dot>>, Type |-> TypeA, Class |-> ClassIN]>>,
                          !.Answer = <<[Name |-> <<98, Dot>>, Type |-> TypeNS, Class |-> ClassIN,
                                        TTL |-> 300,
                                        Data |-> [k |-> "Label", Label |-> n1, Type |-> TypeNS]],
                                       [Name |-> o2, Type |-> TypeNS, Class |-> ClassIN,
                                        TTL |-> 300,
                                        Data |-> [k |-> "Label", Label |-> n2, Type |-> TypeNS]]>>] :
        n1 \in DataNames \cup {RootName}, n2 \in DataNames \cup {RootName},
        o2 \in {<<98, Dot>>, RootName}}

InitPointers ==
    /\ pc = "built"
    /\ msg \in BuiltMessages \cup BadDataMessages \cup TwoAnswerMessages
    /\ buf = <<>>
    /\ err = Nil
    /\ out = <<>>
    /\ err2 = Nil
    /\ msg2 = EmptyMessage
    /\ err3 = Nil
    /\ SignIdle
    /\ DsIdle
    /\ AuxIdle

SpecPointers == InitPointers /\ [][NextRoundTrip]_vars

\* the entry of key in the labelMap of c: its offset is below 0x3FFF and
\* the buffer holds there the whole wire encoding of the suffix key
EntryHolds(c, key) ==
    /\ c.map[key] - 49152 < 16383
    /\ parseLabel(c.raw, c.map[key] - 49152).err = Nil
    /\ ToLower(parseLabel(c.raw, c.map[key] - 49152).name) = key \o <<Dot>>

\* C29: every entry of the compression map has an offset below 0x3FFF at
\* which the output buffer holds the complete wire encoding of its suffix,
\* so that a pointer to it decodes to the suffix it replaces.
C29_CompressionMap ==
    (pc # "built" /\ err2 = Nil) =>
        \A key \in DOMAIN MarshalContext(msg).map : EntryHolds(MarshalContext(msg), key)

----------------------------------------------------------------------------
(* SpecShared: a buffer is parsed and then one octet of it is overwritten. *)
(* readLen returns c.rawMsg[pos:c.rpos], a slice of the caller's buffer,   *)
(* and parseRData stores that slice in RDataIP (A, AAAA) and RDataRaw      *)
(* (NULL); a slice is modelled by its offsets into the buffer.             *)

\* rdbuf of parseResource for the record at rpos, as offsets into rawMsg
RDataSpan(raw, rpos) ==
    [ds |-> rpos + parseLabel(raw, rpos).n + 10, de |-> parseResource(raw, rpos).rpos]

\* rdbuf of each of the n records from rpos on
RECURSIVE RDataSpans(_, _, _)
RDataSpans(raw, rpos, n) ==
    IF n = 0 THEN <<>>
    ELSE <<RDataSpan(raw, rpos)>> \o RDataSpans(raw, parseResource(raw, rpos).rpos, n - 1)

\* record data holding the slice span of rawMsg, read when rawMsg is raw:
\* the IP of RDataIP and the Data of RDataRaw are the slice itself, a nil
\* slice (RDLENGTH 0) and every other kind of data hold no part of rawMsg
SliceData(d, raw, span) ==
    IF span.ds = span.de THEN d
    ELSE IF d.k = "IP" THEN [d EXCEPT !.IP = Slice(raw, span.ds, span.de)]
    ELSE IF d.k = "Raw" THEN [d EXCEPT !.Data = Slice(raw, span.ds, span.de)]
    ELSE d

\* the records parsed from the n records at rpos (list), read when rawMsg
\* is raw
SliceRecords(list, spans, raw) ==
    [i \in 1..Len(list) |-> [list[i] EXCEPT !.Data = SliceData(@, raw, spans[i])]]

\* where the answer, authority and additional sections of old start
AnswerStart(old) == parseQuestions(old, 12, GetU16(old, 4), <<>>).rpos

AuthorityStart(old) == parseResources(old, AnswerStart(old), GetU16(old, 6), <<>>).rpos

AdditionalStart(old) == parseResources(old, AuthorityStart(old), GetU16(old, 8), <<>>).rpos

IsNotOPT(r) == r.Type # TypeOPT

\* the message m that Parse(old) returned, read when the buffer holds raw
SharedMessage(m, old, raw) ==
    [m EXCEPT
        !.Answer = SliceRecords(@, RDataSpans(old, AnswerStart(old), GetU16(old, 6)), raw),
        !.Authority = SliceRecords(@, RDataSpans(old, AuthorityStart(old), GetU16(old, 8)), raw),
        !.Additional =
            SelectSeq(SliceRecords(parseResources(old, AdditionalStart(old), GetU16(old, 10),
                                                  <<>>).list,
                                   RDataSpans(old, AdditionalStart(old), GetU16(old, 10)), raw),
                      IsNotOPT)]

\* the octets written over the buffer
OverwriteOctets == {0, 255}

InitShared ==
    /\ pc = "start"
    /\ buf \in RecordInputs
    /\ msg = EmptyMessage
    /\ err = Nil
    /\ out = <<>>
    /\ err2 = Nil
    /\ msg2 = EmptyMessage
    /\ err3 = Nil
    /\ SignIdle
    /\ DsIdle
    /\ AuxIdle

\* buf[i] = v, after msg, err := Parse(buf) returned
DoOverwrite ==
    /\ pc = "parsed"
    /\ err = Nil
    /\ \E i \in 1..Len(buf), v \in OverwriteOctets :
          /\ buf' = [buf EXCEPT ![i] = v]
          /\ msg' = SharedMessage(msg, buf, [buf EXCEPT ![i] = v])
    /\ pc' = "overwritten"
    /\ UNCHANGED auxVars
    /\ UNCHANGED <<err, out, err2, msg2, err3, signVars, dsVars>>

NextShared == DoParse \/ DoOverwrite

SpecShared == InitShared /\ [][NextShared]_vars

\* C30: the message Parse returned shares no storage with the input
\* buffer: overwriting the buffer after Parse changes no field of it.
C30_NoSharedStorage ==
    [][(pc = "parsed" /\ pc' = "overwritten") => msg' = msg]_vars
====
